---- MODULE Spec2Model ----
(***************************************************************************)
(* Model of the MOLECULAI realtime collaboration core:                     *)
(*   - services/mcp-collaboration/server.js : MCPSession, CollaborationRoom*)
(*     the handshake, the WebSocket listeners and the recording endpoints  *)
(*   - the deterministic replay loader (ReplaySnapshot codec and           *)
(*     DeterministicReplayLoader)                                          *)
(*   - client/src/hooks/useCRDTSelection.js : the local user's selection   *)
(* Eight specifications share the variables:                               *)
(*   Spec          the collaboration server: handshakes, messages, closes  *)
(*   SpecRec       the collaboration server with the recording endpoints   *)
(*                 and the clock                                           *)
(*   SpecRooms     the collaboration server with presence messages and the *)
(*                 recording endpoints, at one instant of the clock        *)
(*   SpecReplay    one DeterministicReplayLoader over a bounded recording, *)
(*                 at the speed 1.0 of the constructor                     *)
(*   SpecSpeed     the loader with speeds below, within and above the      *)
(*                 range [0.1, 10.0], and NaN                              *)
(*   SpecPlayback  the loader with fair animation frames and a fair clock  *)
(*   SpecCodec     ReplaySnapshot.toBinary / fromBinary on bounded events  *)
(*   SpecSelection the useCRDTSelection hook: selection operations, undo,  *)
(*                 redo and renders                                        *)
(***************************************************************************)
EXTENDS Integers, Sequences, FiniteSets, TLC

VARIABLES
    rooms,        \* server.js:31  Map roomId -> CollaborationRoom
    sessions,     \* server.js:32  Map sessionId -> MCPSession
    recordings,   \* server.js:33  Map recordingId -> recording
    readyState,   \* ws.readyState of every connection (ws object)
    receiving,    \* ws: the receiver of the connection still emits 'message'
    uuid,         \* how many uuidv4() values each kind of id has consumed
    now,          \* Date.now()
    sent,         \* the messages written to sockets by the last operation, in order
    lastOp,       \* the operation that produced the current state
    liveAtEvent,  \* history: recordingId -> shared-state snapshot when its last event was recorded
    replay,       \* the DeterministicReplayLoader instance
    codec,        \* the ReplaySnapshot codec exercise: event, buffer, decoded event
    hook          \* useCRDTSelection: localSelection, the user's Y.Array and its UndoManager

vars == <<rooms, sessions, recordings, readyState, receiving,
          uuid, now, sent, lastOp,
          liveAtEvent, replay, codec, hook>>

----------------------------------------------------------------------------
(* Bounds of the model *)

MaxConns == 2
MaxRooms == 2
MaxSessions == 2
MaxRecordings == 2
MaxLog == 2
MaxTime == 1
MaxUpdates == 1

Conns == 1..MaxConns
Users == {"u1", "u2"}
MoleculeIds == {1}
Updates == 1..MaxUpdates

----------------------------------------------------------------------------
(* Values *)

Null == 0                       \* null / undefined where an id is expected
NoTime == -1                    \* recordingStartTime before startRecording
NoUser == "undefined"           \* event.userId when the event carries none
NoUpdate == -1                  \* event.update when the event carries none
Absent == -1                    \* a key the JSON object does not have

\* ws.readyState
OPEN == 1
CLOSING == 2
CLOSED == 3

Max(S) == CHOOSE x \in S : \A y \in S : y <= x

RECURSIVE Dedup(_)
Dedup(s) ==
    IF s = <<>> THEN <<>>
    ELSE LET h == Dedup(SubSeq(s, 1, Len(s) - 1))
             x == s[Len(s)]
         IN  IF \E i \in 1..Len(h) : h[i] = x THEN h ELSE Append(h, x)

----------------------------------------------------------------------------
(* The shared document (Yjs, consumed through applyUpdate / set / toJSON). *)
(* A document is the values written locally (base) plus the set of remote  *)
(* structs integrated; a struct writes one key, the later struct wins.     *)

Keys == {"molecule", "selections", "annotations", "camera", "playback"}

EmptyJSON == [k \in Keys |-> Absent]

NewDoc == [base |-> EmptyJSON, structs |-> {}]

UpdKey(u) == IF u % 3 = 0 THEN "playback" ELSE "camera"

DocSet(doc, key, value) == [doc EXCEPT !.base[key] = value]

ToJSON(doc) ==
    [k \in Keys |->
        LET w == {u \in doc.structs : UpdKey(u) = k}
        IN  IF w = {} THEN doc.base[k] ELSE Max(w)]

\* Y.applyUpdate: malformed bytes throw; a struct already integrated changes nothing
YValid(u) == u \in Updates
YChanges(doc, u) == u \notin doc.structs
YApplyUpdate(doc, u) == [doc EXCEPT !.structs = @ \cup {u}]
\* the transaction origin the 'update' listener gets: applyUpdate is called without one
YOrigin == Null

----------------------------------------------------------------------------
(* The server state handed through a handler *)

\* reads counts the calls of Date.now() the handler has made; the clock
\* advances by a millisecond just before each call whose number is in adv
Srv == [rooms |-> rooms, sessions |-> sessions, recordings |-> recordings,
        readyState |-> readyState, receiving |-> receiving,
        uuid |-> uuid, now |-> now,
        sent |-> <<>>, cur |-> Null, liveAtEvent |-> liveAtEvent,
        reads |-> 0, adv |-> {}]

\* Date.now(): the state after the call, whose now is the value read
DateNow(S) ==
    [S EXCEPT !.reads = @ + 1,
              !.now = IF (S.reads + 1) \in S.adv THEN @ + 1 ELSE @]

\* ws.send(JSON.stringify(message)) directly on the socket: nothing is written
\* unless the socket is open
WsSend(S, c, msg) ==
    IF S.readyState[c] = OPEN
    THEN [S EXCEPT !.sent = Append(@, [ws |-> c, session |-> Null, cause |-> S.cur, msg |-> msg])]
    ELSE S

\* MCPSession.send
Send(S, sid, msg) ==
    LET c == S.sessions[sid].ws
    IN  IF S.readyState[c] = OPEN
        THEN [S EXCEPT !.sent = Append(@, [ws |-> c, session |-> sid, cause |-> S.cur, msg |-> msg])]
        ELSE S

\* CollaborationRoom.broadcast
RECURSIVE BroadcastFrom(_, _, _, _, _)
BroadcastFrom(S, ps, i, msg, excludeSessionId) ==
    IF i > Len(ps) THEN S
    ELSE BroadcastFrom(IF ps[i] # excludeSessionId THEN Send(S, ps[i], msg) ELSE S,
                       ps, i + 1, msg, excludeSessionId)

\* broadcast as it would be if it also reached the roster of another room
BroadcastAcrossRooms(S, r, msg, excludeSessionId) ==
    LET others == DOMAIN S.rooms \ {r}
        ps == IF others = {} THEN S.rooms[r].participants
              ELSE S.rooms[r].participants \o S.rooms[CHOOSE x \in others : TRUE].participants
    IN  BroadcastFrom(S, ps, 1, msg, excludeSessionId)

Broadcast(S, r, msg, excludeSessionId) ==
    BroadcastFrom(S, S.rooms[r].participants, 1, msg, excludeSessionId)

\* CollaborationRoom.getStateSnapshot
GetStateSnapshot(S, r) == ToJSON(S.rooms[r].yDoc)

\* CollaborationRoom.getParticipantList
GetParticipantList(S, r) ==
    LET ps == S.rooms[r].participants
    IN  [i \in 1..Len(ps) |->
            LET s == S.sessions[ps[i]]
            IN  [userId |-> s.userId, sessionId |-> ps[i], role |-> s.role,
                 cursor |-> s.cursor, selection |-> s.selection]]

\* recordEvent as it would be if the event were put in front of the log
RecordEventInFront(S0, r, event) ==
    IF ~S0.rooms[r].isRecording THEN S0
    ELSE LET S == DateNow(S0)
         IN  [S EXCEPT
                !.rooms[r].recordingSnapshots =
                    <<[event EXCEPT !.relativeTime = S.now - S.rooms[r].recordingStartTime]>> \o @,
                !.liveAtEvent = [x \in DOMAIN @ \cup {S.rooms[r].recordingId} |->
                                    IF x = S.rooms[r].recordingId
                                    THEN GetStateSnapshot(S, r) ELSE @[x]]]

\* recordEvent as it would be if relativeTime were the start minus now
RecordEventTimeReversed(S0, r, event) ==
    IF ~S0.rooms[r].isRecording THEN S0
    ELSE LET S == DateNow(S0)
         IN  [S EXCEPT
                !.rooms[r].recordingSnapshots =
                    Append(@, [event EXCEPT !.relativeTime = S.rooms[r].recordingStartTime - S.now]),
                !.liveAtEvent = [x \in DOMAIN @ \cup {S.rooms[r].recordingId} |->
                                    IF x = S.rooms[r].recordingId
                                    THEN GetStateSnapshot(S, r) ELSE @[x]]]

\* CollaborationRoom.recordEvent
RecordEvent(S0, r, event) ==
    IF ~S0.rooms[r].isRecording THEN S0
    ELSE LET S == DateNow(S0)
         IN  [S EXCEPT
                !.rooms[r].recordingSnapshots =
                    Append(@, [event EXCEPT !.relativeTime = S.now - S.rooms[r].recordingStartTime]),
                !.liveAtEvent = [x \in DOMAIN @ \cup {S.rooms[r].recordingId} |->
                                    IF x = S.rooms[r].recordingId
                                    THEN GetStateSnapshot(S, r) ELSE @[x]]]

\* the payload of an event: the fields the replay loader reads from it
\* (defined = FALSE: the event object has no payload property)
Payload(defined, state, update, cursor, selection) ==
    [defined |-> defined, state |-> state, update |-> update, cursor |-> cursor,
     selection |-> selection]

NoPayload == Payload(FALSE, EmptyJSON, NoUpdate, 0, <<>>)

\* an event object as the room builds it: type, userId, timestamp and, by type,
\* state or update at the top level; relativeTime is added by recordEvent.
\* S is the state after the Date.now() of the timestamp
Event(type, userId, state, update, S) ==
    [type |-> type, userId |-> userId, state |-> state, update |-> update,
     timestamp |-> S.now, relativeTime |-> NoTime, payload |-> NoPayload]

\* CollaborationRoom.initializeSharedState
InitializeSharedState(doc, moleculeId) ==
    DocSet(DocSet(DocSet(DocSet(DocSet(doc, "molecule", moleculeId),
        "selections", 0), "annotations", 0), "camera", 0), "playback", 0)

\* new CollaborationRoom(roomId, ownerId, moleculeId)
NewRoom(roomId, ownerId, moleculeId) ==
    [roomId |-> roomId, ownerId |-> ownerId, moleculeId |-> moleculeId,
     participants |-> <<>>,
     yDoc |-> InitializeSharedState(NewDoc, moleculeId),
     isRecording |-> FALSE, recordingId |-> Null,
     recordingSnapshots |-> <<>>, recordingStartTime |-> NoTime]

\* new MCPSession(ws, sessionId, userId, roomId)
NewSession(c, sessionId, userId, roomId) ==
    [ws |-> c, sessionId |-> sessionId, userId |-> userId, roomId |-> roomId,
     role |-> "viewer", cursor |-> 0, selection |-> <<>>, isOnline |-> TRUE]

\* addParticipant as it would be if the roster were listed before the insertion
AddParticipantListedBeforeInsert(S, r, sid) ==
    LET S1 == [S EXCEPT !.rooms[r].participants = Append(@, sid)]
        S2 == Send(S1, sid, [type |-> "room-joined", roomId |-> r,
                             state |-> GetStateSnapshot(S1, r),
                             participants |-> GetParticipantList(S, r)])
    IN  Broadcast(S2, r, [type |-> "participant-joined",
                          participant |-> [userId |-> S.sessions[sid].userId,
                                           sessionId |-> sid,
                                           role |-> S.sessions[sid].role]], sid)

\* addParticipant as it would be if participant-joined went to the whole roster
AddParticipantNotifiesJoiner(S, r, sid) ==
    LET S1 == [S EXCEPT !.rooms[r].participants = Append(@, sid)]
        S2 == Send(S1, sid, [type |-> "room-joined", roomId |-> r,
                             state |-> GetStateSnapshot(S1, r),
                             participants |-> GetParticipantList(S1, r)])
    IN  Broadcast(S2, r, [type |-> "participant-joined",
                          participant |-> [userId |-> S.sessions[sid].userId,
                                           sessionId |-> sid,
                                           role |-> S.sessions[sid].role]], Null)

\* CollaborationRoom.addParticipant
AddParticipant(S, r, sid) ==
    LET S1 == [S EXCEPT !.rooms[r].participants = Append(@, sid)]
        S2 == Send(S1, sid, [type |-> "room-joined", roomId |-> r,
                             state |-> GetStateSnapshot(S1, r),
                             participants |-> GetParticipantList(S1, r)])
        S3 == Broadcast(S2, r, [type |-> "participant-joined",
                                participant |-> [userId |-> S.sessions[sid].userId,
                                                 sessionId |-> sid,
                                                 role |-> S.sessions[sid].role]], sid)
        S4 == DateNow(S3)
    IN  IF S3.rooms[r].isRecording
        THEN RecordEvent(S4, r, Event("participant-joined", S.sessions[sid].userId,
                                      EmptyJSON, NoUpdate, S4))
        ELSE S3

\* stopRecording as it would be if the recording were stored under the room's id
StopRecordingUnderRoomId(S0, r) ==
    IF ~S0.rooms[r].isRecording THEN S0
    ELSE LET S == DateNow(S0)
             room == S.rooms[r]
             recording == [id |-> room.recordingId, roomId |-> room.roomId,
                           moleculeId |-> room.moleculeId,
                           duration |-> S.now - room.recordingStartTime,
                           snapshots |-> room.recordingSnapshots,
                           participants |-> GetParticipantList(S, r)]
         IN  [S EXCEPT
                !.rooms[r].isRecording = FALSE,
                !.rooms[r].recordingId = Null,
                !.rooms[r].recordingSnapshots = <<>>,
                !.recordings = [x \in DOMAIN @ \cup {room.roomId} |->
                                    IF x = room.roomId THEN recording ELSE @[x]]]

\* stopRecording as it would be if the room kept the id of the stored recording
StopRecordingKeepsId(S0, r) ==
    IF ~S0.rooms[r].isRecording THEN S0
    ELSE LET S == DateNow(S0)
             room == S.rooms[r]
             recording == [id |-> room.recordingId, roomId |-> room.roomId,
                           moleculeId |-> room.moleculeId,
                           duration |-> S.now - room.recordingStartTime,
                           snapshots |-> room.recordingSnapshots,
                           participants |-> GetParticipantList(S, r)]
         IN  [S EXCEPT
                !.rooms[r].isRecording = FALSE,
                !.rooms[r].recordingSnapshots = <<>>,
                !.recordings = [x \in DOMAIN @ \cup {room.recordingId} |->
                                    IF x = room.recordingId THEN recording ELSE @[x]]]

\* CollaborationRoom.stopRecording
StopRecording(S0, r) ==
    IF ~S0.rooms[r].isRecording THEN S0
    ELSE LET S == DateNow(S0)
             room == S.rooms[r]
             recording == [id |-> room.recordingId, roomId |-> room.roomId,
                           moleculeId |-> room.moleculeId,
                           duration |-> S.now - room.recordingStartTime,
                           snapshots |-> room.recordingSnapshots,
                           participants |-> GetParticipantList(S, r)]
         IN  [S EXCEPT
                !.rooms[r].isRecording = FALSE,
                !.rooms[r].recordingId = Null,
                !.rooms[r].recordingSnapshots = <<>>,
                !.recordings = [x \in DOMAIN @ \cup {room.recordingId} |->
                                    IF x = room.recordingId THEN recording ELSE @[x]]]

\* startRecording as it would be without the isRecording guard
StartRecordingRestarts(S0, r) ==
    LET S == DateNow(S0)
        S1 == [S EXCEPT
                 !.rooms[r].isRecording = TRUE,
                 !.rooms[r].recordingId = S.uuid.recording + 1,
                 !.rooms[r].recordingSnapshots = <<>>,
                 !.rooms[r].recordingStartTime = S.now,
                 !.uuid.recording = @ + 1]
        S2 == DateNow(S1)
    IN  RecordEvent(S2, r, Event("recording-started", NoUser,
                                 GetStateSnapshot(S2, r), NoUpdate, S2))

\* CollaborationRoom.startRecording
StartRecording(S0, r) ==
    IF S0.rooms[r].isRecording THEN S0
    ELSE LET S == DateNow(S0)
             S1 == [S EXCEPT
                      !.rooms[r].isRecording = TRUE,
                      !.rooms[r].recordingId = S.uuid.recording + 1,
                      !.rooms[r].recordingSnapshots = <<>>,
                      !.rooms[r].recordingStartTime = S.now,
                      !.uuid.recording = @ + 1]
             S2 == DateNow(S1)
         IN  RecordEvent(S2, r, Event("recording-started", NoUser,
                                      GetStateSnapshot(S2, r), NoUpdate, S2))

RemoveAt(s, x) == SelectSeq(s, LAMBDA y : y # x)

\* rooms.delete(roomId)
DeleteRoom(S, r) == [S EXCEPT !.rooms = [x \in DOMAIN @ \ {r} |-> @[x]]]

\* removeParticipant as it would be if an emptied room were deleted without
\* stopping its recording
RemoveParticipantNoStop(S, r, sid) ==
    LET S1 == [S EXCEPT !.rooms[r].participants = RemoveAt(@, sid)]
        S2 == Broadcast(S1, r, [type |-> "participant-left", sessionId |-> sid,
                                userId |-> S.sessions[sid].userId], Null)
    IN  IF Len(S2.rooms[r].participants) = 0 THEN DeleteRoom(S2, r) ELSE S2

\* removeParticipant as it would be if an emptied room were kept
RemoveParticipantKeepRoom(S, r, sid) ==
    Broadcast([S EXCEPT !.rooms[r].participants = RemoveAt(@, sid)], r,
              [type |-> "participant-left", sessionId |-> sid,
               userId |-> S.sessions[sid].userId], Null)

\* CollaborationRoom.removeParticipant
RemoveParticipant(S, r, sid) ==
    IF ~\E i \in 1..Len(S.rooms[r].participants) : S.rooms[r].participants[i] = sid
    THEN S
    ELSE LET userId == S.sessions[sid].userId
             S1 == [S EXCEPT !.rooms[r].participants = RemoveAt(@, sid)]
             S2 == Broadcast(S1, r, [type |-> "participant-left", sessionId |-> sid,
                                     userId |-> userId], Null)
             S3 == IF S2.rooms[r].isRecording
                   THEN LET T == DateNow(S2)
                        IN  RecordEvent(T, r, Event("participant-left", userId,
                                                    EmptyJSON, NoUpdate, T))
                   ELSE S2
         IN  IF Len(S3.rooms[r].participants) = 0
             THEN DeleteRoom(StopRecording(S3, r), r)
             ELSE S3

\* CollaborationRoom.handleCRDTUpdate
HandleCRDTUpdate(S, r, update, origin) ==
    Broadcast(S, r, [type |-> "crdt-update", update |-> update, origin |-> origin], origin)

\* CollaborationRoom.applyUpdate (the caller has checked YValid: invalid bytes throw)
ApplyUpdate(S, r, update, userId) ==
    LET S1 == IF YChanges(S.rooms[r].yDoc, update)
              THEN HandleCRDTUpdate([S EXCEPT !.rooms[r].yDoc = YApplyUpdate(@, update)],
                                    r, update, YOrigin)
              ELSE S
        S2 == DateNow(S1)
    IN  IF S1.rooms[r].isRecording
        THEN RecordEvent(S2, r, Event("state-update", userId, EmptyJSON, update, S2))
        ELSE S1

----------------------------------------------------------------------------
(* MCPSession: the handlers of the post-handshake messages *)

\* broadcastToRoom as it would be if excludeSelf were ignored
BroadcastToRoomIncludingSelf(S, sid, msg, excludeSelf) ==
    Broadcast(S, S.sessions[sid].roomId, msg, Null)

\* broadcastToRoom as it would be if the sender were always excluded
BroadcastToRoomExcludingSelf(S, sid, msg, excludeSelf) ==
    Broadcast(S, S.sessions[sid].roomId, msg, sid)

\* MCPSession.broadcastToRoom
BroadcastToRoom(S, sid, msg, excludeSelf) ==
    LET r == S.sessions[sid].roomId
    IN  IF r \notin DOMAIN S.rooms THEN S
        ELSE Broadcast(S, r, msg, IF excludeSelf THEN sid ELSE Null)

\* MCPSession.updateCursor
UpdateCursor(S, sid, cursor) ==
    BroadcastToRoom([S EXCEPT !.sessions[sid].cursor = cursor], sid,
                    [type |-> "cursor-update", userId |-> S.sessions[sid].userId,
                     cursor |-> cursor], TRUE)

\* MCPSession.updateSelection: new Set(selection), then Array.from(this.selection)
UpdateSelection(S, sid, selection) ==
    BroadcastToRoom([S EXCEPT !.sessions[sid].selection = Dedup(selection)], sid,
                    [type |-> "selection-update", userId |-> S.sessions[sid].userId,
                     selection |-> Dedup(selection)], TRUE)

\* MCPSession.handleStateUpdate; Y.applyUpdate throws on bytes that are no update,
\* and the listener's try/catch drops the message
HandleStateUpdate(S, sid, payload) ==
    LET r == S.sessions[sid].roomId
    IN  IF r \notin DOMAIN S.rooms THEN S
        ELSE IF ~YValid(payload) THEN S
        ELSE ApplyUpdate(S, r, payload, S.sessions[sid].userId)

\* MCPSession.broadcastChatMessage
BroadcastChatMessage(S0, sid, message) ==
    LET S == DateNow(S0)
    IN  BroadcastToRoom(S, sid,
                        [type |-> "chat-message", userId |-> S.sessions[sid].userId,
                         username |-> message.username, message |-> message.text,
                         timestamp |-> S.now], FALSE)

\* MCPSession.handleMessage inside the session's 'message' listener (try/catch):
\* text that is not JSON throws in JSON.parse and is dropped
HandleMessage(S, sid, m) ==
    CASE m.type = "cursor-update"    -> UpdateCursor(S, sid, m.payload)
      [] m.type = "selection-update" -> UpdateSelection(S, sid, m.payload)
      [] m.type = "state-update"     -> HandleStateUpdate(S, sid, m.payload)
      [] m.type = "chat-message"     -> BroadcastChatMessage(S, sid, m.payload)
      [] OTHER                       -> S

----------------------------------------------------------------------------
(* The handshake *)

NoToken == "<undefined>"
Tokens == {NoToken, "", "secret"}

\* validateToken
ValidateToken(token) == token # NoToken /\ Len(token) > 0

\* ws.close()
WsClose(S, c) ==
    IF S.readyState[c] = OPEN THEN [S EXCEPT !.readyState[c] = CLOSING] ELSE S

\* handleCreateRoom as it would be if the role were set after addParticipant
HandleCreateRoomRoleAfterJoin(S, c, userId, moleculeId) ==
    LET roomId == S.uuid.room + 1
        sessionId == S.uuid.session + 1
        S1 == [S EXCEPT
                !.uuid.room = roomId,
                !.uuid.session = sessionId,
                !.rooms = [x \in DOMAIN @ \cup {roomId} |->
                              IF x = roomId THEN NewRoom(roomId, userId, moleculeId) ELSE @[x]],
                !.sessions = [x \in DOMAIN @ \cup {sessionId} |->
                              IF x = sessionId
                              THEN NewSession(c, sessionId, userId, roomId) ELSE @[x]]]
        S2 == [AddParticipant(S1, roomId, sessionId) EXCEPT
                !.sessions[sessionId].role = "owner"]
    IN  WsSend(S2, c, [type |-> "room-created", roomId |-> roomId,
                       sessionId |-> sessionId, role |-> "owner"])

\* handleCreateRoom
HandleCreateRoom(S, c, userId, moleculeId) ==
    LET roomId == S.uuid.room + 1
        sessionId == S.uuid.session + 1
        session == [NewSession(c, sessionId, userId, roomId) EXCEPT !.role = "owner"]
        S1 == [S EXCEPT
                !.uuid.room = roomId,
                !.uuid.session = sessionId,
                !.rooms = [x \in DOMAIN @ \cup {roomId} |->
                              IF x = roomId THEN NewRoom(roomId, userId, moleculeId) ELSE @[x]],
                !.sessions = [x \in DOMAIN @ \cup {sessionId} |->
                              IF x = sessionId THEN session ELSE @[x]]]
        S2 == AddParticipant(S1, roomId, sessionId)
    IN  WsSend(S2, c, [type |-> "room-created", roomId |-> roomId,
                       sessionId |-> sessionId, role |-> "owner"])

\* handleJoinRoom
HandleJoinRoom(S, c, userId, roomId) ==
    IF roomId \notin DOMAIN S.rooms
    THEN WsClose(WsSend(S, c, [type |-> "handshake-error", error |-> "Room not found"]), c)
    ELSE LET sessionId == S.uuid.session + 1
             session == NewSession(c, sessionId, userId, roomId)
             S1 == [S EXCEPT
                     !.uuid.session = sessionId,
                     !.sessions = [x \in DOMAIN @ \cup {sessionId} |->
                                   IF x = sessionId THEN session ELSE @[x]]]
             S2 == AddParticipant(S1, roomId, sessionId)
         IN  WsSend(S2, c, [type |-> "room-joined", roomId |-> roomId,
                            sessionId |-> sessionId, role |-> session.role])

RECURSIVE SortedSeq(_)
SortedSeq(set) ==
    IF set = {} THEN <<>>
    ELSE LET x == Max(set) IN Append(SortedSeq(set \ {x}), x)

\* handleListRooms (a Map iterates in insertion order: ascending room id)
HandleListRooms(S, c) ==
    LET ids == SortedSeq(DOMAIN S.rooms)
    IN  WsSend(S, c, [type |-> "room-list",
                      rooms |-> [i \in 1..Len(ids) |->
                                    [roomId |-> ids[i],
                                     moleculeId |-> S.rooms[ids[i]].moleculeId,
                                     participantCount |-> Len(S.rooms[ids[i]].participants),
                                     isRecording |-> S.rooms[ids[i]].isRecording]]])

\* handleHandshake
HandleHandshake(S, c, m) ==
    IF ~ValidateToken(m.token)
    THEN WsClose(WsSend(S, c, [type |-> "handshake-error",
                               error |-> "Invalid authentication token"]), c)
    ELSE CASE m.action = "create-room" -> HandleCreateRoom(S, c, m.userId, m.moleculeId)
           [] m.action = "join-room"   -> HandleJoinRoom(S, c, m.userId, m.roomId)
           [] m.action = "list-rooms"  -> HandleListRooms(S, c)
           [] OTHER -> WsSend(S, c, [type |-> "handshake-error", error |-> "Invalid action"])

----------------------------------------------------------------------------
(* The WebSocket listeners *)

\* the sessions whose listeners setupWebSocketHandlers registered on ws c, in
\* registration order
Listeners(S, c) == SortedSeq({sid \in DOMAIN S.sessions : S.sessions[sid].ws = c})

\* wss.on('connection') -> ws.on('message'): text that is not JSON throws and the
\* catch closes the socket; a handshake is handled; anything else is ignored
ConnectionOnMessage(S, c, m) ==
    IF m.type = "malformed" THEN WsClose(S, c)
    ELSE IF m.type = "handshake" THEN HandleHandshake(S, c, m)
    ELSE S

RECURSIVE SessionsOnMessage(_, _, _, _)
SessionsOnMessage(S, ls, i, m) ==
    IF i > Len(ls) THEN S
    ELSE SessionsOnMessage(
            IF m.type = "malformed" THEN S
            ELSE HandleMessage([S EXCEPT !.cur = ls[i]], ls[i], m),
            ls, i + 1, m)

\* one 'message' event of ws c: every listener registered on c before the event
\* runs, the connection's first
OnMessage(S, c, m) ==
    SessionsOnMessage(ConnectionOnMessage(S, c, m), Listeners(S, c), 1, m)

\* setupWebSocketHandlers: ws.on('close') of one session
SessionOnClose(S, sid) ==
    LET r == S.sessions[sid].roomId
        S1 == IF r \in DOMAIN S.rooms THEN RemoveParticipant(S, r, sid) ELSE S
    IN  [S1 EXCEPT !.sessions = [x \in DOMAIN @ \ {sid} |-> @[x]]]

RECURSIVE SessionsOnClose(_, _, _)
SessionsOnClose(S, ls, i) ==
    IF i > Len(ls) THEN S
    ELSE SessionsOnClose(SessionOnClose([S EXCEPT !.cur = ls[i]], ls[i]), ls, i + 1)

\* one 'close' event of ws c
OnClose(S, c) ==
    SessionsOnClose([S EXCEPT !.readyState[c] = CLOSED, !.receiving[c] = FALSE],
                    Listeners(S, c), 1)

----------------------------------------------------------------------------
(* The server's operations as actions *)

EmptyMap == [x \in {} |-> Null]

Bounded(S) ==
    /\ S.uuid.room <= MaxRooms
    /\ S.uuid.session <= MaxSessions
    /\ S.uuid.recording <= MaxRecordings
    /\ \A r \in DOMAIN S.rooms : Len(S.rooms[r].recordingSnapshots) <= MaxLog
    /\ \A x \in DOMAIN S.recordings : Len(S.recordings[x].snapshots) <= MaxLog

\* the reads of Date.now() before which the clock may advance, in a handler
\* that makes n of them (an advance before the first read is a Tick before the
\* operation)
Schedules(n) == {adv \in SUBSET (2..n) : adv = {} \/ Cardinality(adv) <= MaxTime - now}

\* the state a handler leaves is the state of the server after the operation
Commit(S, op) ==
    /\ Bounded(S)
    /\ rooms' = S.rooms
    /\ sessions' = S.sessions
    /\ recordings' = S.recordings
    /\ readyState' = S.readyState
    /\ receiving' = S.receiving
    /\ uuid' = S.uuid
    /\ sent' = S.sent
    /\ liveAtEvent' = S.liveAtEvent
    /\ now' = S.now
    /\ lastOp' = op
    /\ UNCHANGED <<replay, codec, hook>>

Op(name, c, r, m) == [op |-> name, ws |-> c, room |-> r, msg |-> m]

\* a client message arrives: the 'message' event is emitted while the receiver
\* runs, also after the server called ws.close(); the receiver stops at the
\* peer's close frame and when the socket closes
WsMessage(c, m) ==
    /\ receiving[c]
    /\ \E S0 \in {OnMessage(Srv, c, m)} : \E adv \in Schedules(S0.reads) :
          Commit(IF adv = {} THEN S0 ELSE OnMessage([Srv EXCEPT !.adv = adv], c, m),
                 Op("message", c, Null, m))

HandshakeMsg(action, userId, roomId, moleculeId, token) ==
    [type |-> "handshake", action |-> action, userId |-> userId, roomId |-> roomId,
     moleculeId |-> moleculeId, token |-> token]

CreateRoom(c) ==
    \E u \in Users, mol \in MoleculeIds :
        WsMessage(c, HandshakeMsg("create-room", u, Null, mol, "secret"))

JoinRoom(c) ==
    \E u \in Users, r \in 1..MaxRooms :
        WsMessage(c, HandshakeMsg("join-room", u, r, Null, "secret"))

ListRooms(c) ==
    WsMessage(c, HandshakeMsg("list-rooms", "u1", Null, Null, "secret"))

RejectedHandshake(c) ==
    \/ \E t \in Tokens \ {"secret"} :
         WsMessage(c, HandshakeMsg("create-room", "u1", Null, 1, t))
    \/ WsMessage(c, HandshakeMsg("delete-room", "u1", Null, Null, "secret"))

CursorUpdate(c) == WsMessage(c, [type |-> "cursor-update", payload |-> 1])

SelectionUpdate(c) ==
    \E sel \in {<<>>, <<2, 1, 2>>} :
        WsMessage(c, [type |-> "selection-update", payload |-> sel])

StateUpdate(c) ==
    \E u \in 0..MaxUpdates : WsMessage(c, [type |-> "state-update", payload |-> u])

ChatMessage(c) ==
    WsMessage(c, [type |-> "chat-message", payload |-> [username |-> "name", text |-> "hi"]])

MalformedMessage(c) == WsMessage(c, [type |-> "malformed"])

UnknownMessage(c) == WsMessage(c, [type |-> "ping"])

\* the peer's close frame arrives, or the connection fails with an 'error'
\* event that a listener of setupWebSocketHandlers logs: the receiver stops
\* and readyState is CLOSING until the 'close' event is emitted
SocketClosing(c) ==
    /\ receiving[c]
    /\ Commit([Srv EXCEPT !.readyState[c] = CLOSING, !.receiving[c] = FALSE],
              Op("closing", c, Null, [type |-> "none"]))

\* the process has exited: the registries are gone with its memory and every
\* connection is closed, without any 'close' listener running
Exited(S) ==
    [S EXCEPT !.rooms = EmptyMap, !.sessions = EmptyMap, !.recordings = EmptyMap,
              !.liveAtEvent = EmptyMap,
              !.readyState = [x \in Conns |-> CLOSED],
              !.receiving = [x \in Conns |-> FALSE]]

\* a frame that violates the protocol arrives on a connection that has no
\* session: ws emits 'error' on the socket, only setupWebSocketHandlers
\* registers a listener for it, and the uncaught 'error' event ends the process
SocketError(c) ==
    /\ receiving[c]
    /\ Listeners(Srv, c) = <<>>
    /\ Commit(Exited(Srv), Op("error", c, Null, [type |-> "none"]))

\* the 'close' event
SocketClose(c) ==
    /\ readyState[c] \in {OPEN, CLOSING}
    /\ \E S0 \in {OnClose(Srv, c)} : \E adv \in Schedules(S0.reads) :
          Commit(IF adv = {} THEN S0 ELSE OnClose([Srv EXCEPT !.adv = adv], c),
                 Op("close", c, Null, [type |-> "none"]))

\* res.json(body): the answer of a REST endpoint
ResJson(S, body) ==
    [S EXCEPT !.sent = Append(@, [ws |-> Null, session |-> Null, cause |-> Null,
                                  msg |-> body])]

\* POST /api/rooms/:roomId/recording/start (an unknown roomId is answered 404)
StartRecordingReq(r) ==
    /\ r \in DOMAIN rooms
    /\ \E adv \in Schedules(StartRecording(Srv, r).reads) :
          LET S1 == StartRecording([Srv EXCEPT !.adv = adv], r)
          IN  Commit(ResJson(S1, [type |-> "http-json", success |-> TRUE,
                                  recordingId |-> S1.rooms[r].recordingId]),
                     Op("start-recording", Null, r, [type |-> "none"]))

\* POST /api/rooms/:roomId/recording/stop (an unknown roomId is answered 404)
StopRecordingReq(r) ==
    /\ r \in DOMAIN rooms
    /\ \E adv \in Schedules(StopRecording(Srv, r).reads) :
          Commit(ResJson(StopRecording([Srv EXCEPT !.adv = adv], r),
                         [type |-> "http-json", success |-> TRUE]),
                 Op("stop-recording", Null, r, [type |-> "none"]))

\* GET /api/recordings/:id: the stored recording, or 404
GetRecording(store, id) ==
    IF id \in DOMAIN store
    THEN [status |-> 200, recording |-> store[id]]
    ELSE [status |-> 404]

\* the clock advances between two operations
Tick(max) ==
    /\ now < max
    /\ now' = now + 1
    /\ sent' = <<>>
    /\ lastOp' = Op("tick", Null, Null, [type |-> "none"])
    /\ UNCHANGED <<rooms, sessions, recordings, readyState, receiving,
          uuid, liveAtEvent, replay, codec, hook>>

ReplayIdle == [status |-> "none"]

\* useCRDTSelection after the first render and its effect
NewHook == [localSelection |-> {}, rendered |-> {}, items |-> <<>>, ins |-> {}, del |-> {},
            undoStack |-> <<>>, redoStack |-> <<>>, lastChange |-> FALSE,
            error |-> "none"]
CodecIdle == [status |-> "idle"]

InitServer ==
    /\ rooms = EmptyMap
    /\ sessions = EmptyMap
    /\ recordings = EmptyMap
    /\ liveAtEvent = EmptyMap
    /\ readyState = [c \in Conns |-> OPEN]
    /\ receiving = [c \in Conns |-> TRUE]
    /\ uuid = [room |-> 0, session |-> 0, recording |-> 0]
    /\ now = 0
    /\ sent = <<>>
    /\ lastOp = Op("init", Null, Null, [type |-> "none"])

Init ==
    /\ InitServer
    /\ replay = ReplayIdle
    /\ codec = CodecIdle
    /\ hook = NewHook

Next ==
    \/ \E c \in Conns : CreateRoom(c)
    \/ \E c \in Conns : JoinRoom(c)
    \/ \E c \in Conns : ListRooms(c)
    \/ \E c \in Conns : RejectedHandshake(c)
    \/ \E c \in Conns : CursorUpdate(c)
    \/ \E c \in Conns : SelectionUpdate(c)
    \/ \E c \in Conns : StateUpdate(c)
    \/ \E c \in Conns : ChatMessage(c)
    \/ \E c \in Conns : MalformedMessage(c)
    \/ \E c \in Conns : UnknownMessage(c)
    \/ \E c \in Conns : SocketClosing(c)
    \/ \E c \in Conns : SocketError(c)
    \/ \E c \in Conns : SocketClose(c)

\* the collaboration server: handshakes, messages, disconnects and the end of
\* the process
Spec == Init /\ [][Next]_vars

\* in the recording specification every connection has its own user
ConnUser(c) == IF c = 1 THEN "u1" ELSE "u2"

CreateRoomRec(c) ==
    \E mol \in MoleculeIds :
        WsMessage(c, HandshakeMsg("create-room", ConnUser(c), Null, mol, "secret"))

\* in the recording specification a join names a room of the registry
JoinRoomRec(c) ==
    \E r \in DOMAIN rooms :
        WsMessage(c, HandshakeMsg("join-room", ConnUser(c), r, Null, "secret"))

NextRec ==
    \/ \E c \in Conns : CreateRoomRec(c)
    \/ \E c \in Conns : JoinRoomRec(c)
    \/ \E c \in Conns : StateUpdate(c)
    \/ \E c \in Conns : ChatMessage(c)
    \/ \E c \in Conns : SocketClose(c)
    \/ \E r \in 1..MaxRooms : StartRecordingReq(r)
    \/ \E r \in 1..MaxRooms : StopRecordingReq(r)
    \/ Tick(MaxTime)

\* the collaboration server with the recording endpoints and the clock
SpecRec == Init /\ [][NextRec]_vars

\* a selection-update message that carries the empty selection
SelectionCleared(c) == WsMessage(c, [type |-> "selection-update", payload |-> <<>>])

NextRooms ==
    \/ \E c \in Conns : CreateRoomRec(c)
    \/ \E c \in Conns : JoinRoomRec(c)
    \/ \E c \in Conns : CursorUpdate(c)
    \/ \E c \in Conns : SelectionCleared(c)
    \/ \E c \in Conns : StateUpdate(c)
    \/ \E c \in Conns : ChatMessage(c)
    \/ \E c \in Conns : SocketClose(c)
    \/ \E r \in 1..MaxRooms : StartRecordingReq(r)
    \/ \E r \in 1..MaxRooms : StopRecordingReq(r)

\* the server after construction, the clock at the last instant of the model
InitRooms ==
    /\ rooms = EmptyMap
    /\ sessions = EmptyMap
    /\ recordings = EmptyMap
    /\ liveAtEvent = EmptyMap
    /\ readyState = [c \in Conns |-> OPEN]
    /\ receiving = [c \in Conns |-> TRUE]
    /\ uuid = [room |-> 0, session |-> 0, recording |-> 0]
    /\ now = MaxTime
    /\ sent = <<>>
    /\ lastOp = Op("init", Null, Null, [type |-> "none"])
    /\ replay = ReplayIdle
    /\ codec = CodecIdle
    /\ hook = NewHook

\* the rooms of the collaboration server under every operation on a room:
\* joins, leaves, presence, state and chat messages and recordings, at one
\* instant of the clock (SpecRec has the clock)
SpecRooms == InitRooms /\ [][NextRooms]_vars

----------------------------------------------------------------------------
(* IEEE 754 binary64, the numbers of the loader's clock arithmetic.  A       *)
(* number that is an integer of magnitude below 2^30 is [int |-> n]; any    *)
(* other number is [neg, exp, m] with value (-1)^neg * M * 2^exp, where M,  *)
(* 2^52 <= M < 2^53, is the integer whose digits in base 2^14, the least    *)
(* significant first, are m.  Every result is rounded to the nearest        *)
(* binary64, ties to even.  NaN is [nan |-> TRUE]: every sum, difference    *)
(* and product with NaN is NaN and every comparison with NaN is false.      *)
(* Subnormal numbers and infinities are beyond the times of the model.      *)

Digit == 2 ^ 14

\* digit i of x, zero beyond its length
BigDigit(x, i) == IF i \in 1..Len(x) THEN x[i] ELSE 0

\* the digits of the number whose columns are cols: carries and borrows are
\* passed upwards
RECURSIVE Carry(_, _, _)
Carry(cols, i, c) ==
    IF i > Len(cols) THEN <<>>
    ELSE <<(cols[i] + c) % Digit>> \o Carry(cols, i + 1, (cols[i] + c) \div Digit)

\* x * 2^s on n digits, and the integer part of x / 2^s
BigShiftLeft(x, s, n) ==
    Carry([i \in 1..n |-> BigDigit(x, i - (s \div 14)) * 2 ^ (s % 14)], 1, 0)
BigShiftRight(x, s) ==
    [i \in 1..Len(x) |->
        (BigDigit(x, i + (s \div 14)) \div 2 ^ (s % 14))
        + (BigDigit(x, i + (s \div 14) + 1) % 2 ^ (s % 14)) * 2 ^ (14 - (s % 14))]

\* bit k of x, and whether every bit of x below bit s is zero
BigBit(x, k) == (BigDigit(x, (k \div 14) + 1) \div 2 ^ (k % 14)) % 2
BigLowZero(x, s) ==
    /\ \A i \in 1..(s \div 14) : BigDigit(x, i) = 0
    /\ BigDigit(x, (s \div 14) + 1) % 2 ^ (s % 14) = 0

\* the number of bits of x
BigZero(x) == \A i \in 1..Len(x) : x[i] = 0
TopDigit(x) == CHOOSE i \in 1..Len(x) : x[i] # 0 /\ \A j \in (i + 1)..Len(x) : x[j] = 0
DigitBits(d) == CHOOSE k \in 1..14 : d \in (2 ^ (k - 1))..(2 ^ k - 1)
BitLength(x) ==
    IF BigZero(x) THEN 0 ELSE 14 * (TopDigit(x) - 1) + DigitBits(x[TopDigit(x)])

\* x < y, for x and y of the same length
BigLess(x, y) ==
    \E i \in 1..Len(x) : x[i] < y[i] /\ \A j \in (i + 1)..Len(x) : x[j] = y[j]

\* x + sign * y, for x and y of nine digits and a result that is not negative
BigPlus(x, y, sign) == Carry([i \in 1..9 |-> x[i] + sign * y[i]], 1, 0)

\* the product of two numbers of four digits
BigTimes(x, y) ==
    Carry([k \in 1..8 |-> x[1] * BigDigit(y, k) + x[2] * BigDigit(y, k - 1)
                          + x[3] * BigDigit(y, k - 2) + x[4] * BigDigit(y, k - 3)], 1, 0)

\* the integer part of x / d for a small d, x taken from digit i downwards with
\* the remainder rem of the digits above
RECURSIVE BigDivide(_, _, _, _)
BigDivide(x, i, rem, d) ==
    IF i = 0 THEN <<>>
    ELSE Append(BigDivide(x, i - 1, (rem * Digit + x[i]) % d, d),
                (rem * Digit + x[i]) \div d)

\* an integer as a binary64
DInt(n) == [int |-> n]
IsInt(x) == "int" \in DOMAIN x

NaN == [nan |-> TRUE]
IsNaN(x) == "nan" \in DOMAIN x

\* the integer of magnitude a and sign neg, a given by three digits
Signed(neg, a) == IF neg THEN -(a[1] + a[2] * Digit + a[3] * Digit * Digit)
                  ELSE a[1] + a[2] * Digit + a[3] * Digit * Digit

\* a binary64 in the form the model keeps it
Pack(d) ==
    IF d.exp \in -52..-23 /\ BigLowZero(d.m, -d.exp)
    THEN DInt(Signed(d.neg, BigShiftRight(d.m, -d.exp)))
    ELSE d

\* sign, exponent and 53-bit significand of a binary64 other than zero
Normal(neg, digits, len) ==
    [neg |-> neg, exp |-> len - 53, m |-> BigShiftLeft(digits, 53 - len, 4)]
Magnitude(a) == <<a % Digit, (a \div Digit) % Digit, a \div (Digit * Digit)>>
UnpackInt(neg, digits) == Normal(neg, digits, BitLength(digits))
Unpack(x) ==
    IF IsInt(x) THEN UnpackInt(x.int < 0, Magnitude(IF x.int < 0 THEN -x.int ELSE x.int))
    ELSE x

\* the binary64 nearest to (-1)^neg * x * 2^e, ties to even: x has len bits,
\* the s lowest of them are dropped, q is the quotient and q1 is q + 1
RoundCarried(neg, exp, q1) ==
    IF q1[4] = 2 ^ 11 THEN [neg |-> neg, exp |-> exp + 1, m |-> <<0, 0, 0, 2 ^ 10>>]
    ELSE [neg |-> neg, exp |-> exp, m |-> q1]
RoundQuotient(neg, exp, q, up) ==
    IF ~up THEN [neg |-> neg, exp |-> exp, m |-> q]
    ELSE RoundCarried(neg, exp, Carry([i \in 1..4 |-> q[i] + (IF i = 1 THEN 1 ELSE 0)], 1, 0))
RoundShift(neg, x, e, s) ==
    IF s <= 0 THEN [neg |-> neg, exp |-> e + s, m |-> BigShiftLeft(x, -s, 4)]
    ELSE RoundQuotient(neg, e + s, SubSeq(BigShiftRight(x, s), 1, 4),
                       BigBit(x, s - 1) = 1 /\ (~BigLowZero(x, s - 1) \/ BigBit(x, s) = 1))
RoundLength(neg, x, e, len) ==
    IF len = 0 THEN DInt(0) ELSE Pack(RoundShift(neg, x, e, len - 53))
Round(neg, x, e) == RoundLength(neg, x, e, BitLength(x))

\* -x
DNeg(x) ==
    IF IsNaN(x) THEN NaN ELSE IF IsInt(x) THEN DInt(-x.int) ELSE [x EXCEPT !.neg = ~@]

\* x + y and x - y in binary64: a and b are x and y unpacked, am and bm their
\* significands aligned on the exponent e
PlusAligned(a, b, am, bm, e) ==
    IF a.neg # b.neg /\ am = bm THEN DInt(0)
    ELSE Round(IF a.neg = b.neg \/ BigLess(bm, am) THEN a.neg ELSE b.neg,
               IF a.neg = b.neg THEN BigPlus(am, bm, 1)
               ELSE IF BigLess(am, bm) THEN BigPlus(bm, am, -1) ELSE BigPlus(am, bm, -1),
               e)
PlusExponent(a, b, e) ==
    PlusAligned(a, b, BigShiftLeft(a.m, a.exp - e, 9), BigShiftLeft(b.m, b.exp - e, 9), e)
PlusUnpacked(x, y, a, b) ==
    IF a.exp - b.exp >= 60 THEN x
    ELSE IF b.exp - a.exp >= 60 THEN y
    ELSE PlusExponent(a, b, IF a.exp < b.exp THEN a.exp ELSE b.exp)
DPlus(x, y) ==
    IF IsNaN(x) \/ IsNaN(y) THEN NaN
    ELSE IF IsInt(x) /\ IsInt(y) /\ (x.int + y.int) \in (1 - 2 ^ 30)..(2 ^ 30 - 1)
    THEN DInt(x.int + y.int)
    ELSE IF x = DInt(0) THEN y
    ELSE IF y = DInt(0) THEN x
    ELSE PlusUnpacked(x, y, Unpack(x), Unpack(y))
DMinus(x, y) == DPlus(x, DNeg(y))

\* x * y in binary64
TimesUnpacked(a, b) == Round(a.neg # b.neg, BigTimes(a.m, b.m), a.exp + b.exp)
DTimes(x, y) ==
    IF IsNaN(x) \/ IsNaN(y) THEN NaN
    ELSE IF IsInt(x) /\ IsInt(y) /\ x.int \in (-Digit)..Digit /\ y.int \in (-Digit)..Digit
    THEN DInt(x.int * y.int)
    ELSE IF x = DInt(0) \/ y = DInt(0) THEN DInt(0)
    ELSE TimesUnpacked(Unpack(x), Unpack(y))

\* x <= y
Below(a, b) == a.exp < b.exp \/ (a.exp = b.exp /\ (a.m = b.m \/ BigLess(a.m, b.m)))
LeqUnpacked(x, y, a, b) ==
    IF x = DInt(0) THEN ~b.neg
    ELSE IF y = DInt(0) THEN a.neg
    ELSE IF a.neg # b.neg THEN a.neg
    ELSE IF a.neg THEN Below(b, a) ELSE Below(a, b)
DLeq(x, y) ==
    IF IsNaN(x) \/ IsNaN(y) THEN FALSE
    ELSE IF IsInt(x) /\ IsInt(y) THEN x.int <= y.int
    ELSE LeqUnpacked(x, y, Unpack(x), Unpack(y))

\* the binary64 a decimal literal of k tenths denotes
Sticky(q) == [q EXCEPT ![1] = (@ \div 2) * 2 + 1]
Tenths(k) ==
    IF k % 10 = 0 THEN DInt(k \div 10)
    ELSE Round(FALSE, Sticky(BigDivide(<<0, 0, 0, 0, k * 16>>, 5, 0, 10)), -60)

\* Math.min and Math.max of two numbers: NaN when one of them is NaN
MathMin(x, y) == IF IsNaN(x) \/ IsNaN(y) THEN NaN ELSE IF DLeq(x, y) THEN x ELSE y
MathMax(x, y) == IF IsNaN(x) \/ IsNaN(y) THEN NaN ELSE IF DLeq(x, y) THEN y ELSE x

----------------------------------------------------------------------------
(* The replay loader: ReplaySnapshot and DeterministicReplayLoader.         *)
(* Date.now(), relativeTime and the argument of seek are whole milliseconds;*)
(* startTime, pausedTime, the current time and playbackSpeed are binary64   *)
(* numbers, computed as the code computes them.                             *)

EventType == <<"state-snapshot", "cursor-update", "selection-update", "crdt-update",
               "chat-message", "participant-joined", "participant-left",
               "camera-update", "annotation-added", "playback-control">>

NullTime == [null |-> TRUE]     \* startTime = null

ToSet(s) == {s[i] : i \in 1..Len(s)}

\* new ReplaySnapshot(data)
ReplaySnapshot(data) ==
    [timestamp |-> data.timestamp, relativeTime |-> data.relativeTime,
     type |-> data.type, userId |-> data.userId, payload |-> data.payload]

\* DeterministicReplayLoader.emit, as the list of the events emitted by the
\* operation under way
Emit(rp, event) == [rp EXCEPT !.emitted = Append(@, event)]

\* DeterministicReplayLoader.restoreState: a new Y.Doc with every entry of
\* stateData set on it; Object.entries(undefined) throws
RestoreState(rp, payload) ==
    IF ~payload.defined THEN [rp EXCEPT !.error = "TypeError"]
    ELSE Emit([rp EXCEPT !.yDoc = [base |-> payload.state, structs |-> {}]],
              "state-restored")

\* DeterministicReplayLoader.initializeState
InitializeState(rp) ==
    IF Len(rp.snapshots) > 0 /\ rp.snapshots[1].type = "state-snapshot"
    THEN RestoreState(rp, rp.snapshots[1].payload)
    ELSE rp

MapSet(f, k, v) == [x \in DOMAIN f \cup {k} |-> IF x = k THEN v ELSE f[x]]
MapDelete(f, k) == [x \in DOMAIN f \ {k} |-> f[x]]

\* DeterministicReplayLoader.applySnapshot; reading a property of an undefined
\* payload throws
ApplySnapshot(rp, snapshot) ==
    LET t == snapshot.type
        u == snapshot.userId
        needsPayload == t \in {"cursor-update", "selection-update", "crdt-update"}
    IN  IF needsPayload /\ ~snapshot.payload.defined
        THEN [rp EXCEPT !.error = "TypeError"]
        ELSE IF t = "crdt-update" /\ ~YValid(snapshot.payload.update)
        THEN [rp EXCEPT !.error = "Error"]
        ELSE Emit(
          CASE t = "cursor-update" ->
                 Emit([rp EXCEPT !.cursors = MapSet(@, u, snapshot.payload.cursor)], t)
            [] t = "selection-update" ->
                 Emit([rp EXCEPT !.selections =
                                    MapSet(@, u, ToSet(snapshot.payload.selection))], t)
            [] t = "crdt-update" ->
                 Emit([rp EXCEPT !.yDoc = YApplyUpdate(@, snapshot.payload.update)], t)
            [] t = "participant-joined" ->
                 Emit([rp EXCEPT !.participants =
                                    MapSet(@, u, [userId |-> u,
                                                  joinedAt |-> snapshot.relativeTime])], t)
            [] t = "participant-left" ->
                 Emit([rp EXCEPT !.participants = MapDelete(@, u),
                                 !.cursors = MapDelete(@, u),
                                 !.selections = MapDelete(@, u)], t)
            [] t \in {"chat-message", "camera-update", "annotation-added"} ->
                 Emit(rp, t)
            [] OTHER -> rp,
          "snapshot")

\* new DeterministicReplayLoader(recording)
NewLoader(recording) ==
    InitializeState(
        [status |-> "loaded",
         recording |-> recording,
         snapshots |-> [i \in 1..Len(recording.snapshots) |->
                            ReplaySnapshot(recording.snapshots[i])],
         currentIndex |-> 0,
         isPlaying |-> FALSE,
         playbackSpeed |-> DInt(1),
         startTime |-> NullTime,
         pausedTime |-> DInt(0),
         yDoc |-> NewDoc,
         participants |-> EmptyMap,
         cursors |-> EmptyMap,
         selections |-> EmptyMap,
         frames |-> 0,
         emitted |-> <<>>,
         error |-> "none"])

\* DeterministicReplayLoader.getCurrentTime
GetCurrentTime(rp, t) ==
    IF ~rp.isPlaying THEN rp.pausedTime
    ELSE DTimes(DMinus(DInt(t), rp.startTime), rp.playbackSpeed)

\* DeterministicReplayLoader.stop
Stop(rp) ==
    Emit(InitializeState([rp EXCEPT !.isPlaying = FALSE, !.currentIndex = 0,
                                    !.startTime = NullTime, !.pausedTime = DInt(0)]),
         "stop")

\* F(e), with e evaluated once
Strict(F(_), e) == CHOOSE y \in {F(x) : x \in {e}} : TRUE

\* this.currentIndex++ after applySnapshot: not reached when applySnapshot threw
Advance(rp) == IF rp.error # "none" THEN rp ELSE [rp EXCEPT !.currentIndex = @ + 1]

\* the while loop of playbackLoop: apply every snapshot up to the current time
RECURSIVE ApplyDue(_, _)
ApplyDue(loader, currentTime) ==
    Strict(LAMBDA rp :
        IF rp.error = "none" /\ rp.currentIndex < Len(rp.snapshots)
           /\ DLeq(DInt(rp.snapshots[rp.currentIndex + 1].relativeTime), currentTime)
        THEN ApplyDue(Advance(ApplySnapshot(rp, rp.snapshots[rp.currentIndex + 1])),
                      currentTime)
        ELSE rp,
        loader)

\* playbackLoop as it would be if the replay completed one event early
PlaybackLoopCompletesEarly(rp, t) ==
    IF ~rp.isPlaying THEN rp
    ELSE Strict(LAMBDA rp1 :
             IF rp1.error # "none" THEN rp1
             ELSE IF rp1.currentIndex + 1 >= Len(rp1.snapshots)
             THEN Emit(Stop(rp1), "complete")
             ELSE [rp1 EXCEPT !.frames = @ + 1],
             ApplyDue(rp, GetCurrentTime(rp, t)))

\* DeterministicReplayLoader.playbackLoop
PlaybackLoop(rp, t) ==
    IF ~rp.isPlaying THEN rp
    ELSE Strict(LAMBDA rp1 :
             IF rp1.error # "none" THEN rp1
             ELSE IF rp1.currentIndex >= Len(rp1.snapshots)
             THEN Emit(Stop(rp1), "complete")
             ELSE [rp1 EXCEPT !.frames = @ + 1],       \* requestAnimationFrame
             ApplyDue(rp, GetCurrentTime(rp, t)))

\* DeterministicReplayLoader.play; ts are the values Date.now() returns to the
\* successive reads of the call: the one of play and the one of
\* getCurrentTime in the playbackLoop it runs
Play(rp, ts) ==
    IF rp.isPlaying THEN rp
    ELSE LET rp1 == PlaybackLoop([rp EXCEPT !.isPlaying = TRUE,
                                            !.startTime = DMinus(DInt(ts[1]), rp.pausedTime)],
                                 ts[2])
         IN  IF rp1.error # "none" THEN rp1 ELSE Emit(rp1, "play")

\* DeterministicReplayLoader.pause
Pause(rp, t) ==
    IF ~rp.isPlaying THEN rp
    ELSE Emit([rp EXCEPT !.isPlaying = FALSE,
                         !.pausedTime = DMinus(DInt(t), rp.startTime)],
              "pause")

\* seek: the index of the last snapshot of the leading run with relativeTime <= target
RECURSIVE TargetIndex(_, _, _, _)
TargetIndex(snapshots, targetTime, i, found) ==
    IF i < Len(snapshots) /\ DLeq(DInt(snapshots[i + 1].relativeTime), targetTime)
    THEN TargetIndex(snapshots, targetTime, i + 1, i)
    ELSE found

\* seek: the last state snapshot at or before targetIndex, -1 when there is none
RECURSIVE StateSnapshotIndex(_, _)
StateSnapshotIndex(snapshots, i) ==
    IF i < 0 THEN -1
    ELSE IF snapshots[i + 1].type = "state-snapshot" THEN i
    ELSE StateSnapshotIndex(snapshots, i - 1)

\* seek: the while loop applying the events up to targetIndex
RECURSIVE ApplyUpTo(_, _)
ApplyUpTo(rp, targetIndex) ==
    IF rp.error = "none" /\ rp.currentIndex <= targetIndex
    THEN ApplyUpTo(Advance(ApplySnapshot(rp, rp.snapshots[rp.currentIndex + 1])),
                   targetIndex)
    ELSE rp

\* DeterministicReplayLoader.seek; on an empty recording
\* this.snapshots[0].type throws; ts are the values Date.now() returns to the
\* successive reads of the call, which a loader that was playing makes: the
\* one of pause, then the two of play
Seek(rp, targetTime, ts) ==
    LET wasPlaying == rp.isPlaying
        rp1 == IF wasPlaying THEN Pause(rp, ts[1]) ELSE rp
    IN  IF Len(rp1.snapshots) = 0 THEN [rp1 EXCEPT !.error = "TypeError"]
        ELSE
        LET targetIndex == TargetIndex(rp1.snapshots, targetTime, 0, 0)
            stateSnapshotIndex == StateSnapshotIndex(rp1.snapshots, targetIndex)
            rp2 == IF stateSnapshotIndex >= 0
                   THEN [RestoreState(rp1, rp1.snapshots[stateSnapshotIndex + 1].payload)
                            EXCEPT !.currentIndex = stateSnapshotIndex + 1]
                   ELSE [rp1 EXCEPT !.currentIndex = 0]
            rp3 == ApplyUpTo(rp2, targetIndex)
            rp4 == Emit([rp3 EXCEPT !.pausedTime = targetTime], "seek")
        IN  IF rp2.error # "none" THEN [rp1 EXCEPT !.error = "TypeError"]
            ELSE IF rp3.error # "none" THEN rp3
            ELSE IF wasPlaying THEN Play(rp4, Tail(ts)) ELSE rp4

\* DeterministicReplayLoader.seekToFrame
SeekToFrame(rp, frameIndex, ts) ==
    IF frameIndex < 0 \/ frameIndex >= Len(rp.snapshots) THEN rp
    ELSE Seek(rp, DInt(rp.snapshots[frameIndex + 1].relativeTime), ts)

\* DeterministicReplayLoader.setPlaybackSpeed; ts are the values Date.now()
\* returns to the successive reads of the call, which a playing loader makes:
\* the one of getCurrentTime, then the one of setPlaybackSpeed
SetPlaybackSpeed(rp, speed, ts) ==
    LET currentTime == IF rp.isPlaying THEN GetCurrentTime(rp, ts[1]) ELSE rp.pausedTime
        rp1 == [rp EXCEPT !.playbackSpeed = MathMax(Tenths(1), MathMin(DInt(10), speed))]
    IN  Emit(IF rp1.isPlaying THEN [rp1 EXCEPT !.startTime = DMinus(DInt(ts[2]), currentTime)]
             ELSE rp1,
             "speed-changed")

----------------------------------------------------------------------------
(* The replay loader as a state machine: one loader, built from a recording *)
(* drawn from RecordingInputs, driven by its public methods, by the         *)
(* animation frames it requested and by the clock.                          *)

MaxEvents == 2
MaxReplayTime == 2
MaxFrames == 2
MaxVirtual == 4                 \* bound on the loader's times, in milliseconds
MaxFractional == 1              \* bound on the startTimes stored that are not whole ms

ReplayUser == "u1"
SnapshotState == [EmptyJSON EXCEPT !["molecule"] = 1]

InputTypes == {"state-snapshot", "crdt-update", "participant-joined", "participant-left",
               "cursor-update", "selection-update", "chat-message"}

\* an event object of a recording file
Data(type, relativeTime) ==
    [timestamp |-> relativeTime, relativeTime |-> relativeTime, type |-> type,
     userId |-> ReplayUser,
     payload |-> Payload(TRUE,
                         IF type = "state-snapshot" THEN SnapshotState ELSE EmptyJSON,
                         IF type = "crdt-update" THEN 1 ELSE NoUpdate,
                         IF type = "cursor-update" THEN 1 ELSE 0,
                         IF type = "selection-update" THEN <<2, 1, 2>> ELSE <<>>)]

\* the type of the first event of an input: the initial state, or another event
FirstTypes == {"state-snapshot", "participant-joined"}

\* the relativeTime of the i-th event: one per millisecond from 0, one per
\* millisecond from 1, or all at the same millisecond
Timings == {"spread", "late", "tied"}
RelTime(timing, i) ==
    CASE timing = "spread" -> i - 1
      [] timing = "late" -> i
      [] OTHER -> 1

RecordingInputs ==
    {[duration |-> IF n = 0 THEN 0 ELSE RelTime(timing, n),
      snapshots |-> [i \in 1..n |-> Data(types[i], RelTime(timing, i))],
      participants |-> <<>>] :
        <<n, timing, types>> \in
            UNION {{<<n, timing, types>> : timing \in Timings,
                                           types \in {f \in [1..n -> InputTypes] :
                                                         n > 0 => f[1] \in FirstTypes}} :
                   n \in 0..MaxEvents}}

SeekTimes == 0..MaxEvents
SpeedInputs == {DInt(1), DInt(2)}

\* the reconstructed state a caller of the loader observes
View(rp) ==
    [sharedState |-> ToJSON(rp.yDoc), participants |-> rp.participants,
     cursors |-> rp.cursors, selections |-> rp.selections]

\* the loader as the constructor leaves it
Pristine(rp) ==
    LET f == NewLoader(rp.recording)
    IN  /\ View(rp) = View(f)
        /\ rp.currentIndex = 0 /\ ~rp.isPlaying /\ rp.playbackSpeed = DInt(1)
        /\ rp.startTime = NullTime /\ rp.pausedTime = DInt(0) /\ rp.frames = 0

\* the loader states followed: the frames requested, the paused time and the
\* time elapsed since startTime (when they are numbers) and the number of
\* startTimes stored so far that are not a whole number of milliseconds are
\* bounded
ReplayBounded(rp, t) ==
    LET TimeBounded(x) == IsNaN(x) \/ (DLeq(DInt(0), x) /\ DLeq(x, DInt(MaxVirtual)))
    IN  /\ rp.frames <= MaxFrames
        /\ rp.fractional <= MaxFractional
        /\ TimeBounded(rp.pausedTime)
        /\ rp.isPlaying => TimeBounded(DMinus(DInt(t), rp.startTime))

ROp(name, arg) == Op(name, Null, Null, [type |-> name, arg |-> arg])

\* a call of a method of the loader: the events emitted and the exception
\* thrown are those of this call
Call(rp) == [rp EXCEPT !.emitted = <<>>, !.error = "none"]

\* the values Date.now() returns to the n successive reads of a call: the
\* first is the time the call is made at (an advance before it is a Tick
\* before the call), and the clock may advance by a millisecond before each
\* later read, up to max
Readings(n, max) ==
    {ts \in [1..n -> now..max] :
        /\ n > 0 => ts[1] = now
        /\ \A i \in 1..(n - 1) : ts[i + 1] - ts[i] \in {0, 1}}

\* the clock after a call that read ts
LastRead(ts) == IF ts = <<>> THEN now ELSE ts[Len(ts)]

\* the loader after the call, t the last value of the clock it read; pristine
\* records whether the call found the loader as the constructor leaves it,
\* fractional counts the calls that stored a startTime that is not a whole
\* number of milliseconds
ReplayCommit(rp, op, t) ==
    /\ lastOp' = op
    /\ now' = t
    /\ \E next \in {[rp EXCEPT
                        !.pristine = (replay.status = "none" \/ Pristine(replay)),
                        !.fractional = IF /\ rp.isPlaying /\ ~IsInt(rp.startTime)
                                          /\ ~IsNaN(rp.startTime)
                                          /\ rp.startTime # replay.startTime
                                       THEN @ + 1 ELSE @]} :
          ReplayBounded(next, t) /\ replay' = next
    /\ UNCHANGED <<rooms, sessions, recordings, readyState, receiving,
          uuid, sent,
                   liveAtEvent, codec, hook>>

\* new DeterministicReplayLoader(recording)
LoadRecording(recording) ==
    /\ replay.status = "none"
    /\ LET rp == NewLoader(recording)
       IN  ReplayCommit([x \in DOMAIN rp \cup {"pristine", "fractional"} |->
                            IF x = "pristine" THEN TRUE
                            ELSE IF x = "fractional" THEN 0 ELSE rp[x]],
                        ROp("load", 0), now)

\* seek(targetTime); the clock is read when the loader is playing, and may
\* advance up to max between the reads
ReplaySeek(max) ==
    /\ replay.status = "loaded"
    /\ \E t \in SeekTimes, ts \in Readings(IF replay.isPlaying THEN 3 ELSE 0, max) :
          ReplayCommit(Seek(Call(replay), DInt(t), ts), ROp("seek", t), LastRead(ts))

ReplaySeekToFrame(max) ==
    /\ replay.status = "loaded"
    /\ \E i \in -1..MaxEvents, ts \in Readings(IF replay.isPlaying THEN 3 ELSE 0, max) :
          ReplayCommit(SeekToFrame(Call(replay), i, ts), ROp("seekToFrame", i), LastRead(ts))

\* play(); the clock is read when the loader is not playing
ReplayPlay(max) ==
    /\ replay.status = "loaded"
    /\ \E ts \in Readings(IF replay.isPlaying THEN 0 ELSE 2, max) :
          ReplayCommit(Play(Call(replay), ts), ROp("play", 0), LastRead(ts))

ReplayPause ==
    /\ replay.status = "loaded"
    /\ ReplayCommit(Pause(Call(replay), now), ROp("pause", 0), now)

ReplayStop ==
    /\ replay.status = "loaded"
    /\ ReplayCommit(Stop(Call(replay)), ROp("stop", 0), now)

\* setPlaybackSpeed(speed); the clock is read when the loader is playing
ReplaySetPlaybackSpeed(max) ==
    /\ replay.status = "loaded"
    /\ \E speed \in SpeedInputs, ts \in Readings(IF replay.isPlaying THEN 2 ELSE 0, max) :
          ReplayCommit(SetPlaybackSpeed(Call(replay), speed, ts),
                       ROp("setPlaybackSpeed", speed), LastRead(ts))

\* a callback passed to requestAnimationFrame runs
AnimationFrame ==
    /\ replay.status = "loaded"
    /\ replay.frames > 0
    /\ \E rp \in {PlaybackLoop([Call(replay) EXCEPT !.frames = @ - 1], now)} :
          ReplayCommit(rp, ROp("frame", 0), now)

\* the loader at the speed the constructor sets
NextReplay ==
    \/ \E recording \in RecordingInputs : LoadRecording(recording)
    \/ ReplaySeek(MaxReplayTime)
    \/ ReplaySeekToFrame(MaxReplayTime)
    \/ ReplayPlay(MaxReplayTime)
    \/ ReplayPause
    \/ ReplayStop
    \/ AnimationFrame
    \/ Tick(MaxReplayTime)

SpecReplay == Init /\ [][NextReplay]_vars

\* the arguments of setPlaybackSpeed: a number below 0.1, in range or above
\* 10.0, or NaN, which a missing argument also is to Math.min
AnySpeeds == {DInt(0), DInt(2), Tenths(101), NaN}

\* setPlaybackSpeed called with any argument
ReplaySetAnySpeed(max) ==
    /\ replay.status = "loaded"
    /\ \E speed \in AnySpeeds, ts \in Readings(IF replay.isPlaying THEN 2 ELSE 0, max) :
          ReplayCommit(SetPlaybackSpeed(Call(replay), speed, ts),
                       ROp("setPlaybackSpeed", speed), LastRead(ts))

\* the recordings that are an initial state followed by arrivals
SpeedRecordings ==
    {recording \in RecordingInputs :
        \A i \in DOMAIN recording.snapshots :
            recording.snapshots[i].type =
                IF i = 1 THEN "state-snapshot" ELSE "participant-joined"}

\* the loader driven by seek, play, pause, the animation frames and the
\* clock, at any speed asked for
NextSpeed ==
    \/ \E recording \in SpeedRecordings : LoadRecording(recording)
    \/ ReplaySeek(MaxTime)
    \/ ReplayPlay(MaxTime)
    \/ ReplayPause
    \/ ReplaySetAnySpeed(MaxTime)
    \/ AnimationFrame
    \/ Tick(MaxTime)

SpecSpeed == Init /\ [][NextSpeed]_vars

NextPlayback ==
    \/ \E recording \in RecordingInputs : LoadRecording(recording)
    \/ ReplayPlay(MaxReplayTime)
    \/ ReplayPause
    \/ ReplayStop
    \/ ReplaySetPlaybackSpeed(MaxReplayTime)
    \/ AnimationFrame
    \/ Tick(MaxReplayTime)

\* playback in a browser that keeps running: a callback passed to
\* requestAnimationFrame is eventually run, and the clock advances
SpecPlayback ==
    Init /\ [][NextPlayback]_vars
         /\ WF_vars(AnimationFrame) /\ WF_vars(Tick(MaxReplayTime))

----------------------------------------------------------------------------
(* The binary codec of ReplaySnapshot: toBinary and fromBinary.  A buffer   *)
(* is a sequence of bytes, a string is the sequence of its code points, a   *)
(* number is an integer below 2^31, and a payload is a JSON array of        *)
(* one-digit numbers or undefined.                                          *)

UserIdWidth == 36               \* bytes of the userId field
FixedSize == 8 + 8 + 1 + UserIdWidth + 4

Zeros(n) == [i \in 1..n |-> 0]

RECURSIVE Flatten(_)
Flatten(ss) == IF ss = <<>> THEN <<>> ELSE Head(ss) \o Flatten(Tail(ss))

\* TextEncoder.encode of one code point; a surrogate that is not part of a
\* pair is encoded as U+FFFD
Utf8(cp) ==
    IF cp < 128 THEN <<cp>>
    ELSE IF cp < 2048 THEN <<192 + (cp \div 64), 128 + (cp % 64)>>
    ELSE IF cp \in 55296..57343 THEN <<239, 191, 189>>
    ELSE IF cp < 65536
    THEN <<224 + (cp \div 4096), 128 + ((cp \div 64) % 64), 128 + (cp % 64)>>
    ELSE <<240 + (cp \div 262144), 128 + ((cp \div 4096) % 64),
           128 + ((cp \div 64) % 64), 128 + (cp % 64)>>

\* TextEncoder.encode
TextEncode(str) == Flatten([i \in 1..Len(str) |-> Utf8(str[i])])

\* the UTF-8 decoder of TextDecoder.decode from byte i of b on: cp is the code
\* point under way, needed the number of continuation bytes it still lacks
\* and lower..upper the range of the next one.  A byte that cannot continue
\* the sequence ends it with one U+FFFD and is decoded again as a first byte;
\* a sequence cut by the end of the input decodes to one U+FFFD
RECURSIVE Utf8DecodeFrom(_, _, _, _, _, _)
Utf8DecodeFrom(b, i, cp, needed, lower, upper) ==
    IF i > Len(b) THEN (IF needed = 0 THEN <<>> ELSE <<65533>>)
    ELSE IF needed = 0
    THEN IF b[i] < 128 THEN <<b[i]>> \o Utf8DecodeFrom(b, i + 1, 0, 0, 128, 191)
         ELSE IF b[i] \in 194..223
         THEN Utf8DecodeFrom(b, i + 1, b[i] % 32, 1, 128, 191)
         ELSE IF b[i] \in 224..239
         THEN Utf8DecodeFrom(b, i + 1, b[i] % 16, 2,
                             IF b[i] = 224 THEN 160 ELSE 128,
                             IF b[i] = 237 THEN 159 ELSE 191)
         ELSE IF b[i] \in 240..244
         THEN Utf8DecodeFrom(b, i + 1, b[i] % 8, 3,
                             IF b[i] = 240 THEN 144 ELSE 128,
                             IF b[i] = 244 THEN 143 ELSE 191)
         ELSE <<65533>> \o Utf8DecodeFrom(b, i + 1, 0, 0, 128, 191)
    ELSE IF b[i] \notin lower..upper
    THEN <<65533>> \o Utf8DecodeFrom(b, i, 0, 0, 128, 191)
    ELSE IF needed = 1
    THEN <<cp * 64 + (b[i] % 64)>> \o Utf8DecodeFrom(b, i + 1, 0, 0, 128, 191)
    ELSE Utf8DecodeFrom(b, i + 1, cp * 64 + (b[i] % 64), needed - 1, 128, 191)

\* TextDecoder.decode without the byte order mark
Utf8Decode(b) == Utf8DecodeFrom(b, 1, 0, 0, 128, 191)

\* TextDecoder.decode: a leading U+FEFF is dropped
TextDecode(b) ==
    LET str == Utf8Decode(b)
    IN  IF str # <<>> /\ str[1] = 65279 THEN Tail(str) ELSE str

\* String.prototype.length: UTF-16 code units
RECURSIVE StringLength(_)
StringLength(str) ==
    IF str = <<>> THEN 0
    ELSE (IF Head(str) >= 65536 THEN 2 ELSE 1) + StringLength(Tail(str))

\* String.prototype.padEnd(n, '\0')
PadEnd(str, n) ==
    IF StringLength(str) >= n THEN str ELSE str \o Zeros(n - StringLength(str))

\* String.prototype.replace(/\0/g, '')
StripNul(str) == SelectSeq(str, LAMBDA cp : cp # 0)

\* DataView.setFloat64(offset, v, true) of an integer: sign, biased exponent
\* and the 52 bits of the fraction, little endian
Float64Bytes(v) ==
    IF v = 0 THEN Zeros(8)
    ELSE LET a == IF v < 0 THEN -v ELSE v
             e == CHOOSE x \in 0..30 : 2 ^ x <= a /\ a \div 2 < 2 ^ x
             f == a - 2 ^ e
             FBit(j) == IF j >= 52 - e THEN (f \div (2 ^ (j - (52 - e)))) % 2 ELSE 0
             FByte(k) == FBit(8 * k) + 2 * FBit(8 * k + 1) + 4 * FBit(8 * k + 2)
                           + 8 * FBit(8 * k + 3) + 16 * FBit(8 * k + 4)
                           + 32 * FBit(8 * k + 5) + 64 * FBit(8 * k + 6)
                           + 128 * FBit(8 * k + 7)
             biased == e + 1023
         IN  [k \in 1..6 |-> FByte(k - 1)]
             \o <<((biased % 16) * 16) + FBit(48) + 2 * FBit(49) + 4 * FBit(50)
                     + 8 * FBit(51),
                  (IF v < 0 THEN 128 ELSE 0) + (biased \div 16)>>

\* DataView.getFloat64(offset, true): the integer the 8 bytes hold
\* (modelled = FALSE when they hold another number)
Float64Value(b) ==
    LET sign == b[8] \div 128
        biased == ((b[8] % 128) * 16) + (b[7] \div 16)
        e == biased - 1023
        FBit(j) == IF j >= 48 THEN ((b[7] % 16) \div (2 ^ (j - 48))) % 2
                   ELSE (b[(j \div 8) + 1] \div (2 ^ (j % 8))) % 2
        fractionIsZero == \A j \in 0..51 : FBit(j) = 0
        Weight(j) == IF FBit(j) = 1 THEN (2 ^ (j - (52 - e))) ELSE 0
        RECURSIVE Sum(_)
        Sum(j) == IF j > 51 THEN 0 ELSE Weight(j) + Sum(j + 1)
    IN  IF biased = 0 /\ fractionIsZero THEN [modelled |-> TRUE, value |-> 0]
        ELSE IF e \in 0..30 /\ \A j \in 0..(51 - e) : FBit(j) = 0
        THEN LET a == 2 ^ e + Sum(52 - e)
             IN  [modelled |-> TRUE, value |-> IF sign = 1 THEN -a ELSE a]
        ELSE [modelled |-> FALSE, value |-> 0]

\* DataView.setUint32(offset, n, true) and getUint32(offset, true), n below 2^31
Uint32Bytes(n) ==
    <<n % 256, (n \div 256) % 256, (n \div 65536) % 256, (n \div 16777216) % 256>>
Uint32Value(b) ==
    IF b[4] >= 128 THEN 2147483647
    ELSE b[1] + 256 * b[2] + 65536 * b[3] + 16777216 * b[4]

\* Object.values(EventType).indexOf(type)
IndexOf(type) ==
    IF \E i \in 1..Len(EventType) : EventType[i] = type
    THEN (CHOOSE i \in 1..Len(EventType) : EventType[i] = type) - 1
    ELSE -1

\* JSON.stringify of an array of one-digit numbers
RECURSIVE JsonItems(_)
JsonItems(value) ==
    IF value = <<>> THEN <<>>
    ELSE IF Len(value) = 1 THEN <<48 + value[1]>>
    ELSE <<48 + value[1], 44>> \o JsonItems(Tail(value))

JsonStringify(value) == <<91>> \o JsonItems(value) \o <<93>>

\* JSON.parse of the text of such an array; any other text is a SyntaxError here
RECURSIVE ParseItems(_)
ParseItems(str) ==
    IF Len(str) >= 2 /\ str[1] \in 48..57 /\ str[2] = 93 /\ Len(str) = 2
    THEN [ok |-> TRUE, value |-> <<str[1] - 48>>]
    ELSE IF Len(str) >= 3 /\ str[1] \in 48..57 /\ str[2] = 44
    THEN LET rest == ParseItems(SubSeq(str, 3, Len(str)))
         IN  [ok |-> rest.ok, value |-> <<str[1] - 48>> \o rest.value]
    ELSE [ok |-> FALSE, value |-> <<>>]

JsonParse(str) ==
    IF str = <<91, 93>> THEN [ok |-> TRUE, value |-> <<>>]
    ELSE IF Len(str) >= 3 /\ str[1] = 91 THEN ParseItems(Tail(str))
    ELSE [ok |-> FALSE, value |-> <<>>]

UndefinedJson == [defined |-> FALSE, value |-> <<>>]
Json(value) == [defined |-> TRUE, value |-> value]

\* ReplaySnapshot.toBinary: the buffer, or the exception thrown
ToBinary(snapshot) ==
    LET payloadBytes == IF snapshot.payload.defined
                        THEN TextEncode(JsonStringify(snapshot.payload.value))
                        ELSE <<>>
        typeIndex == IndexOf(snapshot.type)
        userIdBytes == TextEncode(PadEnd(snapshot.userId, UserIdWidth))
    IN  IF Len(userIdBytes) > UserIdWidth
        THEN [error |-> "RangeError", buffer |-> <<>>]
        ELSE [error |-> "none",
              buffer |-> Float64Bytes(snapshot.timestamp)
                         \o Float64Bytes(snapshot.relativeTime)
                         \o <<typeIndex % 256>>
                         \o userIdBytes \o Zeros(UserIdWidth - Len(userIdBytes))
                         \o Uint32Bytes(Len(payloadBytes))
                         \o payloadBytes]

NoSnapshot ==
    [timestamp |-> 0, relativeTime |-> 0, type |-> "undefined", userId |-> <<>>,
     payload |-> UndefinedJson]

\* ReplaySnapshot.fromBinary: the snapshot, or the exception thrown
FromBinary(buffer) ==
    IF Len(buffer) < FixedSize
    THEN [error |-> "RangeError", modelled |-> TRUE, snapshot |-> NoSnapshot]
    ELSE LET timestamp == Float64Value(SubSeq(buffer, 1, 8))
             relativeTime == Float64Value(SubSeq(buffer, 9, 16))
             typeIndex == buffer[17]
             type == IF typeIndex < Len(EventType) THEN EventType[typeIndex + 1]
                     ELSE "undefined"
             userId == StripNul(TextDecode(SubSeq(buffer, 18, 17 + UserIdWidth)))
             payloadLength == Uint32Value(SubSeq(buffer, FixedSize - 3, FixedSize))
             payload == JsonParse(TextDecode(SubSeq(buffer, FixedSize + 1,
                                                    FixedSize + payloadLength)))
         IN  IF payloadLength > Len(buffer) - FixedSize
             THEN [error |-> "RangeError", modelled |-> TRUE, snapshot |-> NoSnapshot]
             ELSE IF ~payload.ok
             THEN [error |-> "SyntaxError", modelled |-> TRUE, snapshot |-> NoSnapshot]
             ELSE [error |-> "none",
                   modelled |-> timestamp.modelled /\ relativeTime.modelled,
                   snapshot |-> [timestamp |-> timestamp.value,
                                 relativeTime |-> relativeTime.value,
                                 type |-> type, userId |-> userId,
                                 payload |-> Json(payload.value)]]

\* the inputs of the codec
Ascii(n) == [i \in 1..n |-> 97]
SnapshotInputs ==
    LET userIds == {Ascii(0), Ascii(1), Ascii(UserIdWidth), Ascii(UserIdWidth + 1),
                    <<233>>, <<97, 0, 98>>, <<128512>>, <<55296>>,
                    Ascii(UserIdWidth - 2) \o <<233>>, Ascii(UserIdWidth - 1) \o <<233>>}
        types == ToSet(EventType) \cup {"recording-started"}
        payloads == {UndefinedJson, Json(<<>>), Json(<<1>>), Json(<<2, 1, 2>>)}
        timestamps == {0, 3, 1000}
        relativeTimes == {0, 2}
    IN  {ReplaySnapshot([timestamp |-> ts, relativeTime |-> rel, type |-> type,
                         userId |-> userId, payload |-> payload]) :
            <<ts, rel, type, userId, payload>> \in
                timestamps \X relativeTimes \X types \X userIds \X payloads}

\* snapshot.toBinary()
CodecToBinary ==
    /\ codec.status = "idle"
    /\ \E snapshot \in SnapshotInputs :
          LET r == ToBinary(snapshot)
          IN  codec' = [status |-> "encoded", snapshot |-> snapshot,
                        error |-> r.error, buffer |-> r.buffer,
                        decoded |-> NoSnapshot, modelled |-> TRUE]
    /\ UNCHANGED <<rooms, sessions, recordings, readyState, receiving,
          uuid, now, sent, lastOp,
                   liveAtEvent, replay, hook>>

\* ReplaySnapshot.fromBinary(buffer)
CodecFromBinary ==
    /\ codec.status = "encoded"
    /\ codec.error = "none"
    /\ LET r == FromBinary(codec.buffer)
       IN  codec' = [codec EXCEPT !.status = "decoded", !.error = r.error,
                                  !.decoded = r.snapshot, !.modelled = r.modelled]
    /\ UNCHANGED <<rooms, sessions, recordings, readyState, receiving,
          uuid, now, sent, lastOp,
                   liveAtEvent, replay, hook>>

\* the buffers handed to fromBinary from storage: the encoding of an event as it
\* is, cut short, with another type byte, with another payload length or with
\* a userId that is not UTF-8 (a sequence cut short, an encoded surrogate)
ReceivedBuffers ==
    LET events == {snapshot \in SnapshotInputs :
                      /\ snapshot.timestamp = 3
                      /\ snapshot.type \in {"state-snapshot", "playback-control"}
                      /\ Len(snapshot.userId) <= 1
                      /\ ToBinary(snapshot).error = "none"}
        buffers == {ToBinary(snapshot).buffer : snapshot \in events}
        typeBytes == {0, Len(EventType) - 1, Len(EventType), 255}
        lengths == {0, 1, 3, 8}
        userIds == {<<226, 130>>, <<226, 130, 65>>, <<237, 160, 128>>}
    IN  buffers
        \cup {SubSeq(b, 1, n) : b \in buffers, n \in {FixedSize - 1, FixedSize}}
        \cup {[b EXCEPT ![17] = t] : b \in buffers, t \in typeBytes}
        \cup {[b EXCEPT ![FixedSize - 3] = n] : b \in buffers, n \in lengths}
        \cup {[i \in 1..Len(b) |-> IF i - 17 \in 1..Len(u) THEN u[i - 17] ELSE b[i]] :
                 b \in buffers, u \in userIds}

\* ReplaySnapshot.fromBinary(buffer) of a stored buffer
CodecFromBinaryReceived ==
    /\ codec.status = "idle"
    /\ \E buffer \in ReceivedBuffers :
          LET r == FromBinary(buffer)
          IN  codec' = [status |-> "received", snapshot |-> NoSnapshot,
                        error |-> r.error, buffer |-> buffer,
                        decoded |-> r.snapshot, modelled |-> r.modelled]
    /\ UNCHANGED <<rooms, sessions, recordings, readyState, receiving,
          uuid, now, sent, lastOp,
                   liveAtEvent, replay, hook>>

HeaderSize == 32                \* bytes reserved before the first snapshot

\* DeterministicReplayLoader.toBinary: the buffer, or the exception thrown by
\* the toBinary of a snapshot; an ArrayBuffer starts zero-filled
ReplayToBinary(snapshots, duration) ==
    LET bins == [i \in 1..Len(snapshots) |-> ToBinary(snapshots[i])]
    IN  IF \E i \in 1..Len(bins) : bins[i].error # "none"
        THEN [error |-> "RangeError", buffer |-> <<>>]
        ELSE [error |-> "none",
              buffer |-> Uint32Bytes(Len(snapshots)) \o Float64Bytes(duration)
                         \o Zeros(HeaderSize - 12)
                         \o Flatten([i \in 1..Len(bins) |-> bins[i].buffer])]

\* new DeterministicReplayLoader(recording) over events of the codec:
\* initializeState reads payload.state of a first state-snapshot, which throws
\* for an undefined payload, and restoreState takes Object.entries of it, which
\* throws for the undefined state of an array
CodecLoaderError(snapshots) ==
    IF Len(snapshots) > 0 /\ snapshots[1].type = "state-snapshot" THEN "TypeError"
    ELSE "none"

\* new DeterministicReplayLoader({snapshots, duration}).toBinary() over a
\* recording of up to two events: the buffer, or the exception thrown by the
\* constructor or by toBinary
CodecReplayToBinary ==
    /\ codec.status = "idle"
    /\ LET events == {snapshot \in SnapshotInputs :
                         /\ snapshot.timestamp = 3
                         /\ snapshot.type \in {"state-snapshot", "cursor-update"}
                         /\ snapshot.userId \in {Ascii(1), Ascii(UserIdWidth + 1)}
                         /\ snapshot.payload \in {UndefinedJson, Json(<<2, 1, 2>>)}}
       IN  \E snapshots \in {<<>>} \cup {<<a>> : a \in events}
                                  \cup {<<a, b>> : a \in events, b \in events},
              duration \in {0, 2} :
              LET r == IF CodecLoaderError(snapshots) # "none"
                       THEN [error |-> CodecLoaderError(snapshots), buffer |-> <<>>]
                       ELSE ReplayToBinary(snapshots, duration)
              IN  codec' = [status |-> "exported", snapshot |-> NoSnapshot,
                            snapshots |-> snapshots, duration |-> duration,
                            error |-> r.error, buffer |-> r.buffer,
                            decoded |-> NoSnapshot, modelled |-> TRUE]
    /\ UNCHANGED <<rooms, sessions, recordings, readyState, receiving,
          uuid, now, sent, lastOp,
                   liveAtEvent, replay, hook>>

NextCodec ==
    \/ CodecToBinary
    \/ CodecFromBinary
    \/ CodecFromBinaryReceived
    \/ CodecReplayToBinary

SpecCodec == Init /\ [][NextCodec]_vars

----------------------------------------------------------------------------
(* useCRDTSelection: the operations of the local user on the selection.    *)
(* localSelection is the React state with every queued update applied,     *)
(* rendered the value of it that the callbacks of the last render closed   *)
(* over.  items is the user's Y.Array in the shared selections map: its    *)
(* items in document order, the deleted ones included.  undoStack and      *)
(* redoStack are the stacks of the Y.UndoManager, whose stack items name    *)
(* the items a captured transaction inserted and deleted; ins and del      *)
(* collect those of the running transaction.  roomId, userId and wsUrl are *)
(* non-empty, and no update of another client reaches the document.        *)

MaxAtoms == 2
MaxItems == 3

NewItem(id, value) == [id |-> id, value |-> value, deleted |-> FALSE, redone |-> 0]

\* the positions of the items that are not deleted, in document order
LivePositions(items) == {p \in 1..Len(items) : ~items[p].deleted}

\* the position of the item at index k (from 0) of the array
LiveAt(items, k) ==
    CHOOSE p \in LivePositions(items) :
        Cardinality({q \in LivePositions(items) : q < p}) = k

\* Y.Array.length
ArrayLength(items) == Cardinality(LivePositions(items))

\* Y.Array.toArray()
ToArray(items) == [k \in 1..ArrayLength(items) |-> items[LiveAt(items, k - 1)].value]

\* the position of the item with the given id
PositionOf(items, id) == CHOOSE p \in 1..Len(items) : items[p].id = id

\* Y.Array.push([value]): a new item after the last item of the list
YPush(h, value) ==
    LET id == Len(h.items) + 1
    IN  [h EXCEPT !.items = Append(@, NewItem(id, value)), !.ins = @ \cup {id}]

\* the item at a position is deleted
YDeleteAt(h, p) ==
    [h EXCEPT !.items[p].deleted = TRUE, !.del = @ \cup {h.items[p].id}]

\* addToSelection: each index not in the array at that moment is pushed
RECURSIVE PushMissing(_, _)
PushMissing(h, indices) ==
    IF indices = <<>> THEN h
    ELSE PushMissing(IF Head(indices) \in ToSet(ToArray(h.items)) THEN h
                     ELSE YPush(h, Head(indices)),
                     Tail(indices))

\* the afterTransaction handler of the UndoManager: a transaction that changed
\* the array is captured.  Outside undo and redo the redo stack is cleared and
\* the change is merged into the last stack item when the last change is less
\* than captureTimeout old (merge), or pushed; the transaction of an undo is
\* pushed on the redo stack and stops the capture, that of a redo is pushed
\* on the undo stack
Captured(h, mode, merge) ==
    LET stackItem == [ins |-> h.ins, del |-> h.del]
        h0 == [h EXCEPT !.ins = {}, !.del = {}]
    IN  IF h.ins \cup h.del = {} THEN h0
        ELSE IF mode = "undo"
        THEN [h0 EXCEPT !.lastChange = FALSE, !.redoStack = Append(@, stackItem)]
        ELSE IF mode = "redo"
        THEN [h0 EXCEPT !.undoStack = Append(@, stackItem)]
        ELSE IF merge /\ h.lastChange /\ h.undoStack # <<>>
        THEN [h0 EXCEPT !.redoStack = <<>>,
                        !.undoStack[Len(h.undoStack)] =
                            [ins |-> @.ins \cup h.ins, del |-> @.del \cup h.del]]
        ELSE [h0 EXCEPT !.redoStack = <<>>, !.lastChange = TRUE,
                        !.undoStack = Append(@, stackItem)]

\* addToSelection: the transaction, then the indices are added to
\* localSelection
AddToSelection(h, indices, merge) ==
    [Captured(PushMissing(h, indices), "none", merge)
        EXCEPT !.localSelection = @ \cup ToSet(indices)]

\* the forEach of removeFromSelection: the position of each index is looked
\* up in currentArray, the copy made before the first deletion, and
\* Y.Array.delete(position, 1) throws when the position is past the end
RECURSIVE DeleteEach(_, _, _)
DeleteEach(h, currentArray, indices) ==
    IF indices = <<>> THEN h
    ELSE IF Head(indices) \notin ToSet(currentArray)
    THEN DeleteEach(h, currentArray, Tail(indices))
    ELSE LET indexInArray == (CHOOSE i \in 1..Len(currentArray) :
                                 /\ currentArray[i] = Head(indices)
                                 /\ \A j \in 1..(i - 1) : currentArray[j] # Head(indices)) - 1
         IN  IF indexInArray >= ArrayLength(h.items)
             THEN [h EXCEPT !.error = "Error"]
             ELSE DeleteEach(YDeleteAt(h, LiveAt(h.items, indexInArray)),
                             currentArray, Tail(indices))

\* removeFromSelection: an exception in the transaction leaves the deletions
\* made so far, which are captured, and the state update is not reached
RemoveFromSelection(h, indices, merge) ==
    LET h1 == Captured(DeleteEach(h, ToArray(h.items), indices), "none", merge)
    IN  IF h1.error # "none" THEN h1
        ELSE [h1 EXCEPT !.localSelection = @ \ ToSet(indices)]

\* userSelectionArray.delete(0, userSelectionArray.length)
RECURSIVE DeleteAll(_)
DeleteAll(h) ==
    IF ArrayLength(h.items) = 0 THEN h ELSE DeleteAll(YDeleteAt(h, LiveAt(h.items, 0)))

\* clearSelection
ClearSelection(h, merge) ==
    [Captured(DeleteAll(h), "none", merge) EXCEPT !.localSelection = {}]

\* the item an item was redone as, through every redo of it
RECURSIVE FollowRedone(_, _)
FollowRedone(items, id) ==
    LET item == items[PositionOf(items, id)]
    IN  IF item.redone = 0 THEN id ELSE FollowRedone(items, item.redone)

\* redoItem: a deleted item that was not redone yet is inserted again as a new
\* item between its left neighbour and itself
RedoItem(h, id) ==
    LET p == PositionOf(h.items, id)
        new == Len(h.items) + 1
    IN  IF h.items[p].redone # 0 THEN h
        ELSE [h EXCEPT !.items = SubSeq(@, 1, p - 1)
                                    \o <<NewItem(new, @[p].value)>>
                                    \o <<[@[p] EXCEPT !.redone = new]>>
                                    \o SubSeq(@, p + 1, Len(@)),
                       !.ins = @ \cup {new}]

RECURSIVE RedoItems(_, _)
RedoItems(h, ids) ==
    IF ids = {} THEN h
    ELSE LET id == CHOOSE x \in ids : \A y \in ids : x <= y
         IN  RedoItems(RedoItem(h, id), ids \ {id})

RECURSIVE DeleteItems(_, _)
DeleteItems(h, ids) ==
    IF ids = {} THEN h
    ELSE LET id == CHOOSE x \in ids : \A y \in ids : x >= y
         IN  DeleteItems(YDeleteAt(h, PositionOf(h.items, id)), ids \ {id})

\* popStackItem: stack items are popped until one of them performs a change.
\* The items it inserted (as they were redone since) are deleted unless they
\* are deleted already, and the items it deleted are redone, except those it
\* inserted itself
RECURSIVE PopStackItem(_, _)
PopStackItem(h, undoing) ==
    LET stack == IF undoing THEN h.undoStack ELSE h.redoStack
    IN  IF stack = <<>> THEN h
        ELSE LET stackItem == stack[Len(stack)]
                 rest == SubSeq(stack, 1, Len(stack) - 1)
                 h1 == IF undoing THEN [h EXCEPT !.undoStack = rest]
                       ELSE [h EXCEPT !.redoStack = rest]
                 itemsToDelete ==
                     {x \in {FollowRedone(h.items, id) : id \in stackItem.ins} :
                         ~h.items[PositionOf(h.items, x)].deleted}
                 itemsToRedo == stackItem.del \ stackItem.ins
             IN  IF itemsToRedo # {} \/ itemsToDelete # {}
                 THEN DeleteItems(RedoItems(h1, itemsToRedo), itemsToDelete)
                 ELSE PopStackItem(h1, undoing)

\* undo: UndoManager.undo(), then localSelection is read from the array
Undo(h) ==
    LET h1 == Captured(PopStackItem(h, TRUE), "undo", FALSE)
    IN  [h1 EXCEPT !.localSelection = ToSet(ToArray(h1.items))]

\* redo: UndoManager.redo(), then localSelection is read from the array
Redo(h) ==
    LET h1 == Captured(PopStackItem(h, FALSE), "redo", FALSE)
    IN  [h1 EXCEPT !.localSelection = ToSet(ToArray(h1.items))]

\* the arguments of a call: one index, or an array of up to two indices
IndexBatches ==
    {<<i>> : i \in 1..MaxAtoms} \cup {<<i, j>> : i \in 1..MaxAtoms, j \in 1..MaxAtoms}

\* the operations of the local user on the selection, and the renders of
\* the component that follow them
SelectionOperations ==
    {"addToSelection", "removeFromSelection", "toggleSelection", "clearSelection",
     "render"}

\* history: the hook has so far seen nothing but SelectionOperations
OnlySelectionOperations == lastOp.op = "init" \/ lastOp.msg.direct

\* the items of the document are bounded by MaxItems
HookCommit(h, name, arg) ==
    /\ Len(h.items) <= MaxItems
    /\ hook' = h
    /\ lastOp' = Op(name, Null, Null,
                    [type |-> name, arg |-> arg,
                     direct |-> OnlySelectionOperations /\ name \in SelectionOperations])
    /\ UNCHANGED <<rooms, sessions, recordings, readyState, receiving,
                   uuid, now, sent, liveAtEvent, replay, codec>>

HookAddToSelection ==
    \E indices \in IndexBatches, merge \in BOOLEAN :
        HookCommit(AddToSelection([hook EXCEPT !.error = "none"], indices, merge),
                   "addToSelection", indices)

HookRemoveFromSelection ==
    \E indices \in IndexBatches, merge \in BOOLEAN :
        HookCommit(RemoveFromSelection([hook EXCEPT !.error = "none"], indices, merge),
                   "removeFromSelection", indices)

\* toggleSelection(atomIndex): the callback tests the localSelection of the
\* render it was created in
HookToggleSelection ==
    \E i \in 1..MaxAtoms, merge \in BOOLEAN :
        LET h == [hook EXCEPT !.error = "none"]
        IN  HookCommit(IF i \in h.rendered THEN RemoveFromSelection(h, <<i>>, merge)
                       ELSE AddToSelection(h, <<i>>, merge),
                       "toggleSelection", <<i>>)

\* clearSelection
HookClearSelection ==
    \E merge \in BOOLEAN :
        HookCommit(ClearSelection([hook EXCEPT !.error = "none"], merge),
                   "clearSelection", <<>>)

\* undo(): nothing happens unless canUndo()
HookUndo ==
    /\ hook.undoStack # <<>>
    /\ HookCommit(Undo([hook EXCEPT !.error = "none"]), "undo", <<>>)

\* redo(): nothing happens unless canRedo()
HookRedo ==
    /\ hook.redoStack # <<>>
    /\ HookCommit(Redo([hook EXCEPT !.error = "none"]), "redo", <<>>)

\* React renders the component: the callbacks close over the current state
HookRender ==
    /\ hook.rendered # hook.localSelection
    /\ HookCommit([hook EXCEPT !.rendered = hook.localSelection], "render", <<>>)

\* a render with another roomId, userId or wsUrl: the cleanup of the effect
\* destroys the document, the effect creates a new document with an empty
\* array for the user and a new UndoManager; the state localSelection is kept
HookRenderOtherRoom ==
    /\ hook.items # <<>>
    /\ HookCommit([NewHook EXCEPT !.localSelection = hook.localSelection,
                                  !.rendered = hook.localSelection],
                  "render-other-room", <<>>)

NextSelection ==
    \/ HookAddToSelection
    \/ HookRemoveFromSelection
    \/ HookToggleSelection
    \/ HookClearSelection
    \/ HookUndo
    \/ HookRedo
    \/ HookRender
    \/ HookRenderOtherRoom

SpecSelection == Init /\ [][NextSelection]_vars

----------------------------------------------------------------------------
(* Vocabulary of the server claims *)

Roster(r) == {rooms[r].participants[i] : i \in 1..Len(rooms[r].participants)}

\* the sessions bound to the socket the last operation came from
Senders == {sid \in DOMAIN sessions : sessions[sid].ws = lastOp.ws}

\* how many messages of a type the handler of session `cause` delivered to session `to`
Delivered(cause, to, type) ==
    Cardinality({i \in 1..Len(sent) :
        /\ sent[i].cause = cause
        /\ sent[i].session = to
        /\ sent[i].msg.type = type})

SocketOpen(sid) == readyState[sessions[sid].ws] = OPEN

IsMessage(type) == lastOp.op = "message" /\ lastOp.msg.type = type

----------------------------------------------------------------------------
(* C1: echo suppression. Whenever a session A sends a state-update that     *)
(* changes the shared state, the crdt-update is delivered to every other    *)
(* session of the roster and never to A.                                    *)
C1_EchoSuppression ==
    \A i \in 1..Len(sent) :
        sent[i].msg.type = "crdt-update" =>
            LET A == sent[i].cause
            IN  /\ Delivered(A, A, "crdt-update") = 0
                /\ \A T \in Roster(sessions[A].roomId) \ {A} :
                       Delivered(A, T, "crdt-update") = 1

----------------------------------------------------------------------------
(* C7: presence fan-out. When a session S sends cursor-update or            *)
(* selection-update, every other session of the roster receives exactly one *)
(* message of that type with S's userId and the new value, S receives none. *)

PresenceValueOk(msg) ==
    IF msg.type = "cursor-update" THEN msg.cursor = lastOp.msg.payload
    ELSE msg.selection = Dedup(lastOp.msg.payload)

\* the presence messages S's handler delivered to T, and those among them that
\* carry S's userId and the value S sent
PresenceTo(S, T) ==
    {i \in 1..Len(sent) :
        /\ sent[i].cause = S /\ sent[i].session = T
        /\ sent[i].msg.type = lastOp.msg.type}

PresenceGoodTo(S, T) ==
    {i \in PresenceTo(S, T) :
        sent[i].msg.userId = sessions[S].userId /\ PresenceValueOk(sent[i].msg)}

IsPresenceOp == IsMessage("cursor-update") \/ IsMessage("selection-update")

\* the claim as written: every other session of the roster receives one
C7_PresenceFanOutOriginal ==
    IsPresenceOp =>
        \A S \in Senders :
            /\ PresenceTo(S, S) = {}
            /\ \A T \in Roster(sessions[S].roomId) \ {S} :
                   Cardinality(PresenceTo(S, T)) = 1 /\ PresenceGoodTo(S, T) = PresenceTo(S, T)

\* C7 as amended: every other session of the roster whose socket is OPEN receives
\* exactly one message of that type with S's userId and the new value; a session
\* whose socket is not OPEN receives none; S receives none.
C7_PresenceFanOut ==
    IsPresenceOp =>
        \A S \in Senders :
            /\ PresenceTo(S, S) = {}
            /\ \A T \in Roster(sessions[S].roomId) \ {S} :
                   /\ Cardinality(PresenceTo(S, T)) = (IF SocketOpen(T) THEN 1 ELSE 0)
                   /\ PresenceGoodTo(S, T) = PresenceTo(S, T)

\* a presence update reached another session of the room
C7_Witness ==
    /\ IsPresenceOp
    /\ \E S \in Senders : \E T \in Roster(sessions[S].roomId) \ {S} :
           PresenceGoodTo(S, T) # {} /\ sessions[T].ws # sessions[S].ws

----------------------------------------------------------------------------
(* C9: no empty room survives. After every handshake, message or disconnect *)
(* every room of the registry has at least one participant.                 *)
C9_NoEmptyRoom ==
    \A r \in DOMAIN rooms : Len(rooms[r].participants) >= 1

\* a disconnect emptied a room and the registry no longer holds it, while
\* another room lives on
C9_Witness ==
    /\ lastOp.op = "close"
    /\ \E r \in 1..uuid.room : r \notin DOMAIN rooms
    /\ DOMAIN rooms # {}

----------------------------------------------------------------------------
(* C10: late-joiner consistency. The room-joined message sent to a joining  *)
(* session carries the room's shared-state snapshot at the join and the     *)
(* current roster, the joiner included.                                     *)
C10_LateJoiner ==
    \A i \in 1..Len(sent) :
        (sent[i].session = Null /\ sent[i].msg.type \in {"room-created", "room-joined"}) =>
            LET sid == sent[i].msg.sessionId
                r == sent[i].msg.roomId
            IN  \E j \in 1..(i - 1) :
                    /\ sent[j].session = sid
                    /\ sent[j].msg.type = "room-joined"
                    /\ sent[j].msg.roomId = r
                    /\ sent[j].msg.state = ToJSON(rooms[r].yDoc)
                    /\ sent[j].msg.participants = GetParticipantList(Srv, r)
                    /\ \E k \in 1..Len(sent[j].msg.participants) :
                           sent[j].msg.participants[k].sessionId = sid

\* a session joined a room whose shared state an earlier update had changed and
\* whose roster already held another session
C10_Witness ==
    /\ IsMessage("handshake")
    /\ \E i \in 1..Len(sent) :
           /\ sent[i].session # Null
           /\ sent[i].msg.type = "room-joined"
           /\ sent[i].msg.state.camera = 1
           /\ Len(sent[i].msg.participants) = 2

----------------------------------------------------------------------------
(* C3: empty-room teardown. Removing the last participant of a recording    *)
(* room stops the recording, stores a Recording under the room's recording  *)
(* id holding the events captured so far, and removes the room from the     *)
(* registry, all in the one removeParticipant operation.                    *)

\* the 'close' event of socket c removes the last participant of recording room r
LastLeaves(r, c) ==
    /\ r \in DOMAIN rooms
    /\ rooms[r].isRecording
    /\ {sessions[sid].ws : sid \in Roster(r)} = {c}

\* the participant-left event of session sid, its times left out
LeftEvent(sid) ==
    [type |-> "participant-left", userId |-> sessions[sid].userId, state |-> EmptyJSON,
     update |-> NoUpdate, timestamp |-> 0, relativeTime |-> 0, payload |-> NoPayload]

Untimed(log) ==
    [i \in 1..Len(log) |-> [log[i] EXCEPT !.timestamp = 0, !.relativeTime = 0]]

IsPrefix(s, t) == Len(s) <= Len(t) /\ SubSeq(t, 1, Len(s)) = s

\* the events a step recorded after the log it found carry readings of the
\* clock made during the step, relativeTime being read after timestamp
TimedByStep(log, after, start) ==
    /\ IsPrefix(log, after)
    /\ \A i \in (Len(log) + 1)..Len(after) :
           /\ after[i].timestamp \in now..now'
           /\ after[i].relativeTime \in (after[i].timestamp - start)..(now' - start)

\* after holds the log followed by the participant-left events of the sessions
\* ps, in order, recorded during the step
WithLeftEvents(log, after, r, ps) ==
    /\ TimedByStep(log, after, rooms[r].recordingStartTime)
    /\ Untimed(after) = Untimed(log) \o [i \in 1..Len(ps) |-> LeftEvent(ps[i])]

\* C3: when the 'close' of a socket removes the last participant of a recording
\* room, that one step removes the room from the registry and stores, under the
\* room's recording id, a Recording of the room holding the events captured so
\* far followed by the participant-left events of the removal
C3_EmptyRoomTeardown ==
    [][\A r \in 1..MaxRooms :
        (LastLeaves(r, lastOp'.ws) /\ lastOp'.op = "close") =>
            LET rid == rooms[r].recordingId
            IN  /\ r \notin DOMAIN rooms'
                /\ rid \notin DOMAIN recordings
                /\ rid \in DOMAIN recordings'
                /\ recordings'[rid].roomId = r
                /\ WithLeftEvents(rooms[r].recordingSnapshots, recordings'[rid].snapshots,
                                  r, rooms[r].participants)]_vars

\* the last participant of a recording room has just left: its Recording is
\* stored, ends with the participant-left event, and the room is gone
C3_Witness ==
    /\ lastOp.op = "close"
    /\ \E rid \in DOMAIN recordings :
           LET rec == recordings[rid]
           IN  /\ rec.roomId \notin DOMAIN rooms
               /\ rec.participants = <<>>
               /\ Len(rec.snapshots) >= 2
               /\ rec.snapshots[Len(rec.snapshots)].type = "participant-left"

----------------------------------------------------------------------------
(* Vocabulary of the replay claims *)

ReplayLoaded == replay.status = "loaded"

\* cursorIndex of the specification is currentIndex of the loader
CursorIndex(rp) == rp.currentIndex

NonDecreasing(snapshots) ==
    \A i \in 1..Len(snapshots) : \A j \in i..Len(snapshots) :
        snapshots[i].relativeTime <= snapshots[j].relativeTime

\* a recording whose first event is the initial state and whose times do not decrease
ValidRecording(recording) ==
    /\ Len(recording.snapshots) > 0
    /\ recording.snapshots[1].type = "state-snapshot"
    /\ NonDecreasing(recording.snapshots)

EventsUpTo(recording, t) ==
    Cardinality({i \in 1..Len(recording.snapshots) :
                    recording.snapshots[i].relativeTime <= t})

\* the state that reflects the first n events of a recording and no other:
\* the events applied in array order to an empty state, a state snapshot
\* replacing the shared state
RECURSIVE Reflects(_, _, _)
Reflects(rp, snapshots, n) ==
    IF n = 0 THEN rp
    ELSE LET before == Reflects(rp, snapshots, n - 1)
             e == ReplaySnapshot(snapshots[n])
         IN  IF e.type = "state-snapshot" THEN RestoreState(before, e.payload)
             ELSE ApplySnapshot(before, e)

StateUpTo(recording, t) ==
    Reflects(NewLoader([recording EXCEPT !.snapshots = <<>>]), recording.snapshots,
             EventsUpTo(recording, t))

\* C2 (as claimed): for every stored recording, loading it into the replay
\* loader and seeking to the relativeTime of its last event reconstructs the
\* shared state the live room held when that event was recorded
C2_Determinism ==
    \A id \in DOMAIN recordings :
        LET recording == recordings[id]
            n == Len(recording.snapshots)
        IN  n > 0 =>
              ToJSON(Seek(NewLoader(recording),
                          DInt(recording.snapshots[n].relativeTime), <<>>).yDoc)
                  = liveAtEvent[id]

\* C5 (as claimed): seek(t) called again right after seek(t) leaves the
\* reconstructed state and cursorIndex as the first call left them, whatever
\* the operations before
C5_SeekIdempotence ==
    [][\A t \in SeekTimes :
          (ReplayLoaded /\ lastOp = ROp("seek", t) /\ lastOp' = ROp("seek", t))
              => /\ View(replay') = View(replay)
                 /\ CursorIndex(replay') = CursorIndex(replay)]_vars

\* C6 (as claimed): after seek(t1); seek(t2) on a freshly loaded recording, with
\* t2 < t1, the reconstructed state is that of a fresh loader after seek(t2)
C6_SeekMonotonicRestart ==
    [][\A t1 \in SeekTimes : \A t2 \in SeekTimes :
          (/\ ReplayLoaded /\ t2 < t1
           /\ lastOp = ROp("seek", t1) /\ replay.pristine
           /\ lastOp' = ROp("seek", t2))
              => View(replay') = View(Seek(NewLoader(replay.recording), DInt(t2), <<>>))]_vars

\* C8 (as claimed): after seek(t) on a valid recording the reconstructed state
\* reflects exactly the events with relativeTime <= t, and cursorIndex is the
\* number of those events, also when t is before the first event
C8_SeekPostcondition ==
    \A t \in SeekTimes :
        (ReplayLoaded /\ lastOp = ROp("seek", t) /\ ValidRecording(replay.recording))
            => /\ CursorIndex(replay) = EventsUpTo(replay.recording, t)
               /\ View(replay) = View(StateUpTo(replay.recording, t))

----------------------------------------------------------------------------
(* Vocabulary of the codec claims *)

\* a valid event: a type of the enumeration, a userId of at most 36 UTF-8
\* bytes, a JSON payload
ValidEvent(snapshot) ==
    /\ snapshot.type \in ToSet(EventType)
    /\ Len(TextEncode(snapshot.userId)) <= UserIdWidth
    /\ snapshot.payload.defined

\* C4 (as claimed): for every valid event e, e.toBinary() returns a buffer and
\* fromBinary of it has the timestamp, relativeTime, type, userId and payload of e
C4_CodecRoundTrip ==
    (codec.status # "idle" /\ ValidEvent(codec.snapshot))
        => /\ codec.error = "none"
           /\ codec.status = "decoded" => codec.decoded = codec.snapshot

----------------------------------------------------------------------------
(* C11: membership notifications. *)

\* the participant-joined messages about session sid delivered to session T
JoinedTo(T, sid) ==
    {i \in 1..Len(sent) :
        /\ sent[i].session = T
        /\ sent[i].msg.type = "participant-joined"
        /\ sent[i].msg.participant.sessionId = sid}

\* after a handshake that added session sid to room r: every other session of
\* the roster (with guarded: whose socket is OPEN) got one participant-joined
\* about sid, and nobody else got any
JoinNotified(guarded) ==
    \A i \in 1..Len(sent) :
        (sent[i].session = Null /\ sent[i].msg.type \in {"room-created", "room-joined"}) =>
            LET sid == sent[i].msg.sessionId
                r == sent[i].msg.roomId
            IN  \A T \in Roster(r) :
                    Cardinality(JoinedTo(T, sid)) =
                        (IF T # sid /\ (guarded => SocketOpen(T)) THEN 1 ELSE 0)

\* a 'close' step: every session of the closing socket leaves its roster, and
\* every other session of that roster (with guarded: whose socket is OPEN) gets
\* one participant-left about it
LeaveNotified(guarded) ==
    lastOp'.op = "close" =>
        \A sid \in DOMAIN sessions :
            (sessions[sid].ws = lastOp'.ws /\ sessions[sid].roomId \in DOMAIN rooms) =>
                LET r == sessions[sid].roomId
                IN  /\ r \in DOMAIN rooms' =>
                           \A k \in 1..Len(rooms'[r].participants) :
                               rooms'[r].participants[k] # sid
                    /\ \A T \in Roster(r) \ {sid} :
                           Cardinality({i \in 1..Len(sent') :
                               /\ sent'[i].session = T
                               /\ sent'[i].msg.type = "participant-left"
                               /\ sent'[i].msg.sessionId = sid}) =
                           (IF guarded => readyState'[sessions[T].ws] = OPEN
                            THEN 1 ELSE 0)

\* C11 (as claimed): on addParticipant every session already in the roster
\* receives exactly one participant-joined and the joiner none; on
\* removeParticipant the session leaves the roster and every remaining session
\* receives exactly one participant-left
C11_MembershipOriginal ==
    [][JoinNotified(FALSE)' /\ LeaveNotified(FALSE)]_vars

\* C11 as amended: the same, for the sessions whose socket is OPEN; a session of
\* the roster whose socket is not OPEN receives no notification
C11_Membership ==
    [][JoinNotified(TRUE)' /\ LeaveNotified(TRUE)]_vars

\* a socket closed and a session that stays in the room was told that the
\* session left
C11_Witness ==
    /\ lastOp.op = "close"
    /\ \E i \in 1..Len(sent) :
           /\ sent[i].msg.type = "participant-left"
           /\ sent[i].session \in DOMAIN sessions
           /\ sent[i].msg.sessionId \notin DOMAIN sessions
           /\ sent[i].session \in Roster(sessions[sent[i].session].roomId)

----------------------------------------------------------------------------
(* C12: everything state-affecting is recorded. *)

\* the sessions of the socket of the step's operation that are in room r
SendersIn(r) ==
    {sid \in DOMAIN sessions : sessions[sid].ws = lastOp'.ws /\ sessions[sid].roomId = r}

\* the events a step has to append to the log of the recording room r: one for
\* each session of r that processes a presence, chat or state message, one for
\* a join of r, one for each session that leaves r while others stay
EventsDue(r) ==
    IF lastOp'.op = "message"
    THEN IF lastOp'.msg.type \in {"cursor-update", "selection-update", "chat-message"}
         THEN Cardinality(SendersIn(r))
         ELSE IF lastOp'.msg.type = "state-update"
         THEN IF YValid(lastOp'.msg.payload) THEN Cardinality(SendersIn(r)) ELSE 0
         ELSE IF lastOp'.msg.type = "handshake"
         THEN Len(rooms'[r].participants) - Len(rooms[r].participants)
         ELSE 0
    ELSE IF lastOp'.op = "close" THEN Cardinality(SendersIn(r))
    ELSE 0

\* C12 (as claimed): while a room is recording, every processed cursor-update,
\* selection-update, chat-message, state-update, participant-joined and
\* participant-left appends exactly one event to the room's event log
C12_EverythingRecorded ==
    [][\A r \in DOMAIN rooms :
          (rooms[r].isRecording /\ r \in DOMAIN rooms' /\ rooms'[r].isRecording) =>
              Len(rooms'[r].recordingSnapshots) =
                  Len(rooms[r].recordingSnapshots) + EventsDue(r)]_vars

----------------------------------------------------------------------------
(* C13: chat fan-out includes the sender. *)

\* the chat-message copies the handler of session S delivered to session T
ChatCopies(S, T) ==
    {i \in 1..Len(sent) :
        /\ sent[i].cause = S
        /\ sent[i].session = T
        /\ sent[i].msg.type = "chat-message"}

\* the timestamps carried by the copies of the chat-message of session S
ChatStamps(S) ==
    {sent[i].msg.timestamp : i \in UNION {ChatCopies(S, T) : T \in DOMAIN sessions}}

\* after a chat-message of the sessions S of a socket: every session T of S's
\* roster (with guarded: whose socket is OPEN) holds exactly one copy, every
\* copy carries S's userId, and all the copies carry one timestamp, a reading
\* of the server's clock
ChatFanOut(guarded) ==
    IsMessage("chat-message") =>
        \A S \in Senders :
            /\ Cardinality(ChatStamps(S)) <= 1
            /\ ChatStamps(S) \subseteq 0..now
            /\ \A T \in Roster(sessions[S].roomId) :
                   /\ Cardinality(ChatCopies(S, T)) =
                          (IF guarded => SocketOpen(T) THEN 1 ELSE 0)
                   /\ \A i \in ChatCopies(S, T) :
                          sent[i].msg.userId = sessions[S].userId

\* C13 (as claimed): a chat-message sent by session S is delivered exactly once
\* to every session in the room's roster, S included, each copy carrying S's
\* userId and the same server timestamp
C13_ChatFanOutOriginal == ChatFanOut(FALSE)

\* C13 as amended: the same, for every session of the roster whose socket is
\* OPEN, S included; a session whose socket is not OPEN receives no copy
C13_ChatFanOut == ChatFanOut(TRUE)

\* a chat-message reached its sender and another session of the roster
C13_Witness ==
    /\ IsMessage("chat-message")
    /\ \E S \in Senders :
           /\ ChatCopies(S, S) # {}
           /\ \E T \in Roster(sessions[S].roomId) \ {S} : ChatCopies(S, T) # {}

----------------------------------------------------------------------------
(* C14: join-room with an unknown roomId. *)

\* the step is a handshake with an accepted token and the given action
IsHandshakeStep(action) ==
    /\ lastOp'.op = "message"
    /\ lastOp'.msg.type = "handshake"
    /\ ValidateToken(lastOp'.msg.token)
    /\ lastOp'.msg.action = action

\* the messages written directly to the socket of the last operation
Answers == {i \in 1..Len(sent) : sent[i].ws = lastOp.ws /\ sent[i].session = Null}

\* the step is a join-room handshake naming a roomId that is not in the registry
JoinsUnknownRoom ==
    /\ lastOp'.op = "message"
    /\ lastOp'.msg.type = "handshake"
    /\ lastOp'.msg.action = "join-room"
    /\ lastOp'.msg.roomId \notin DOMAIN rooms

\* the step creates no session, creates no room and changes no roster
NothingRegistered ==
    /\ DOMAIN sessions' = DOMAIN sessions
    /\ DOMAIN rooms' = DOMAIN rooms
    /\ \A r \in DOMAIN rooms : rooms'[r].participants = rooms[r].participants

\* C14: a join-room handshake naming a roomId that is not in the registry is
\* answered with handshake-error, and creates no session, creates no room and
\* changes no existing room's roster
C14_JoinUnknownRoom ==
    [][JoinsUnknownRoom =>
          /\ Answers' # {}
          /\ \A i \in Answers' : sent'[i].msg.type = "handshake-error"
          /\ NothingRegistered]_vars

\* what handleJoinRoom does keep: such a handshake registers nothing, writes
\* nothing but handshake-error, and is answered when its socket is OPEN
JoinUnknownRoomOnOpenSocket ==
    [][JoinsUnknownRoom =>
          /\ readyState[lastOp'.ws] = OPEN => Answers' # {}
          /\ \A i \in Answers' : sent'[i].msg.type = "handshake-error"
          /\ NothingRegistered]_vars

\* the socket of a join-room handshake that is not answered is one the server
\* has called ws.close() on, whose receiver is still running
JoinUnansweredOnClosedSocket ==
    [][(JoinsUnknownRoom /\ Answers' = {}) =>
          readyState[lastOp'.ws] = CLOSING /\ receiving[lastOp'.ws]]_vars

----------------------------------------------------------------------------
(* C15: role assignment. *)

\* the role the answer to a handshake reports is the role of the session it
\* created: owner after create-room, viewer after join-room
ResponseRoles ==
    \A i \in 1..Len(sent) :
        /\ (sent[i].session = Null /\ sent[i].msg.type = "room-created") =>
               /\ sent[i].msg.role = "owner"
               /\ sessions[sent[i].msg.sessionId].role = "owner"
        /\ (sent[i].session = Null /\ sent[i].msg.type = "room-joined") =>
               /\ sent[i].msg.role = "viewer"
               /\ sessions[sent[i].msg.sessionId].role = "viewer"

\* every participant list and every participant-joined notification reports
\* the role of the session it describes
ListedRoles ==
    \A i \in 1..Len(sent) :
        /\ (sent[i].session # Null /\ sent[i].msg.type = "room-joined") =>
               \A k \in 1..Len(sent[i].msg.participants) :
                   LET p == sent[i].msg.participants[k]
                   IN  p.sessionId \in DOMAIN sessions /\ p.role = sessions[p.sessionId].role
        /\ sent[i].msg.type = "participant-joined" =>
               LET p == sent[i].msg.participant
               IN  p.sessionId \in DOMAIN sessions /\ p.role = sessions[p.sessionId].role

\* the sessions a handshake creates have the role of its action
CreatedRoles ==
    \A sid \in DOMAIN sessions' \ DOMAIN sessions :
        sessions'[sid].role =
            (IF lastOp'.msg.action = "create-room" THEN "owner" ELSE "viewer")

\* no step changes the role of a session
RolesKept ==
    \A sid \in DOMAIN sessions \cap DOMAIN sessions' :
        sessions'[sid].role = sessions[sid].role

\* C15: the session created by a create-room handshake has role owner and every
\* session created by a join-room handshake has role viewer, and the role
\* reported in the room-created / room-joined response and in participant lists
\* equals the session's role
C15_RoleAssignment ==
    [][ResponseRoles' /\ ListedRoles' /\ CreatedRoles /\ RolesKept]_vars

\* a join-room was answered with role viewer and the joiner's participant list
\* shows the room's owner and the joiner
C15_Witness ==
    /\ \E i \in Answers : sent[i].msg.type = "room-joined" /\ sent[i].msg.role = "viewer"
    /\ \E i \in 1..Len(sent) :
           /\ sent[i].session # Null
           /\ sent[i].msg.type = "room-joined"
           /\ \E k \in 1..Len(sent[i].msg.participants) :
                  sent[i].msg.participants[k].role = "owner"
           /\ \E k \in 1..Len(sent[i].msg.participants) :
                  sent[i].msg.participants[k].role = "viewer"

----------------------------------------------------------------------------
(* C16: no registration without an accepted handshake. *)

\* the step is a handshake whose token is missing or empty
RejectedTokenStep ==
    /\ lastOp'.op = "message"
    /\ lastOp'.msg.type = "handshake"
    /\ lastOp'.msg.token \in {NoToken, ""}

\* a step that creates a room or a session is a handshake with a token that is
\* neither missing nor empty, and the sessions it creates are bound to the
\* socket the handshake came from
OnlyHandshakesRegister ==
    (~(DOMAIN rooms' \subseteq DOMAIN rooms) \/ ~(DOMAIN sessions' \subseteq DOMAIN sessions)) =>
        /\ lastOp'.op = "message"
        /\ lastOp'.msg.type = "handshake"
        /\ ~RejectedTokenStep
        /\ \A sid \in DOMAIN sessions' \ DOMAIN sessions : sessions'[sid].ws = lastOp'.ws

\* a handshake with a missing or empty token is answered with handshake-error
\* only (a socket that is no longer OPEN cannot be answered), and the server
\* closes the socket
RejectedTokenTerminated ==
    RejectedTokenStep =>
        /\ readyState[lastOp'.ws] = OPEN => Answers' # {}
        /\ \A i \in Answers' : sent'[i].msg.type = "handshake-error"
        /\ readyState'[lastOp'.ws] # OPEN

\* the connection whose handshake has just been rejected for its token causes
\* no room and no session to be created by its next message
RejectedStaysOut ==
    (IsMessage("handshake") /\ lastOp.msg.token \in {NoToken, ""}
        /\ lastOp'.op = "message" /\ lastOp'.ws = lastOp.ws) =>
            /\ DOMAIN rooms' \subseteq DOMAIN rooms
            /\ DOMAIN sessions' \subseteq DOMAIN sessions

\* C16 (as claimed): a connection that never sends a handshake, or whose
\* handshake carries a missing or empty token, never causes a room or a session
\* to be created; a rejected token is answered with handshake-error and the
\* connection is terminated
C16_NoRegistrationWithoutHandshake ==
    [][OnlyHandshakesRegister /\ RejectedTokenTerminated /\ RejectedStaysOut]_vars

\* what holds of the code: only a handshake with an accepted token registers,
\* and a rejected token is answered, if the socket is OPEN, and closes the socket
RejectedHandshakeRegistersNothing ==
    [][OnlyHandshakesRegister /\ RejectedTokenTerminated]_vars

----------------------------------------------------------------------------
(* C17: malformed-message isolation. *)

\* C17 (as claimed): when a session that has completed its handshake sends an
\* unparseable message, only that message is dropped: the connection stays
\* open, the session stays in its room's roster and no participant-left is
\* broadcast
C17_MalformedIsolation ==
    (IsMessage("malformed") /\ Senders # {}) =>
        /\ readyState[lastOp.ws] = OPEN
        /\ \A S \in Senders : S \in Roster(sessions[S].roomId)
        /\ \A i \in 1..Len(sent) : sent[i].msg.type # "participant-left"

----------------------------------------------------------------------------
(* C18: recording control is idempotent. *)

\* the step is a recording request that finds its room in the given state
RecordingRequest(name, recording) ==
    /\ lastOp'.op = name
    /\ rooms[lastOp'.room].isRecording = recording

\* the room of the step's request keeps its recording fields, the recordings
\* store is unchanged and the request is answered with success
RecordingUntouched ==
    LET r == lastOp'.room
    IN  /\ r \in DOMAIN rooms'
        /\ rooms'[r].isRecording = rooms[r].isRecording
        /\ rooms'[r].recordingId = rooms[r].recordingId
        /\ rooms'[r].recordingStartTime = rooms[r].recordingStartTime
        /\ rooms'[r].recordingSnapshots = rooms[r].recordingSnapshots
        /\ recordings' = recordings
        /\ Len(sent') = 1
        /\ sent'[1].msg.type = "http-json"
        /\ sent'[1].msg.success

\* C18: startRecording on a room that is already recording, and stopRecording
\* on a room that is not recording, leave the room's recordingId, recording
\* start time, event log and the recordings store unchanged and raise no error
C18_RecordingIdempotent ==
    [][(RecordingRequest("start-recording", TRUE)
            \/ RecordingRequest("stop-recording", FALSE)) => RecordingUntouched]_vars

\* a start request was answered for a room whose log already holds events that
\* followed its first start, at a later time than that start
C18_Witness ==
    /\ lastOp.op = "start-recording"
    /\ lastOp.room \in DOMAIN rooms
    /\ Len(rooms[lastOp.room].recordingSnapshots) >= 2
    /\ rooms[lastOp.room].recordingStartTime < now

----------------------------------------------------------------------------
(* C19: the anchor event. *)

\* the event anchors a replay at the given shared state: its type is
\* state-snapshot and its payload carries the state
IsAnchor(event, state) ==
    /\ event.type = "state-snapshot"
    /\ event.payload.defined
    /\ event.payload.state = state

\* C19 (as claimed): immediately after a successful startRecording the event
\* log holds exactly one event, of type state-snapshot, whose payload captures
\* the room's current shared-state snapshot; hence the first event of every
\* stored Recording is a state-snapshot the replay engine restores from
C19_AnchorEvent ==
    [][/\ RecordingRequest("start-recording", FALSE) =>
              LET r == lastOp'.room
              IN  /\ Len(rooms'[r].recordingSnapshots) = 1
                  /\ IsAnchor(rooms'[r].recordingSnapshots[1], ToJSON(rooms'[r].yDoc))
       /\ \A id \in DOMAIN recordings' :
              LET recording == recordings'[id]
              IN  /\ Len(recording.snapshots) > 0
                  /\ recording.snapshots[1].type = "state-snapshot"
                  /\ "state-restored" \in ToSet(NewLoader(recording).emitted)]_vars

----------------------------------------------------------------------------
(* C20: recording immutability. *)

\* C20: once a Recording is stored, no later operation on its room (further
\* messages, joins, leaves, or a new startRecording/stopRecording cycle)
\* changes its events, duration or participant list, and a later recording
\* never overwrites it
C20_RecordingImmutable ==
    [][\A id \in DOMAIN recordings :
          /\ id \in DOMAIN recordings'
          /\ recordings'[id] = recordings[id]]_vars

\* a room that is still open has two stored recordings, the later one with
\* events that followed its start and a different participant list
C20_Witness ==
    \E a, b \in DOMAIN recordings :
        /\ a < b
        /\ recordings[a].roomId = recordings[b].roomId
        /\ recordings[a].roomId \in DOMAIN rooms
        /\ Len(recordings[b].snapshots) >= 2
        /\ recordings[a].participants # recordings[b].participants

----------------------------------------------------------------------------
(* C21: the recording id names the recorded events. *)

\* a successful start request answers the room's new recording id, under which
\* nothing is stored yet, and the log starts with the one event of the start
StartAnswersId ==
    RecordingRequest("start-recording", FALSE) =>
        LET r == lastOp'.room
            id == sent'[1].msg.recordingId
        IN  /\ id = rooms'[r].recordingId
            /\ id # Null
            /\ GetRecording(recordings, id).status = 404
            /\ GetRecording(recordings', id).status = 404
            /\ \A x \in DOMAIN rooms \ {r} : rooms[x].recordingId # id
            /\ Len(rooms'[r].recordingSnapshots) = 1

\* while the recording with an id goes on, a step only appends to the log; the
\* step that ends it (stop-recording, or the teardown of the emptied room)
\* stores under that id the log with the events the step itself appended
LogStoredUnderId ==
    \A r \in DOMAIN rooms :
        rooms[r].isRecording =>
            LET id == rooms[r].recordingId
                log == rooms[r].recordingSnapshots
            IN  IF r \in DOMAIN rooms' /\ rooms'[r].recordingId = id
                THEN /\ IsPrefix(log, rooms'[r].recordingSnapshots)
                     /\ GetRecording(recordings', id).status = 404
                ELSE /\ GetRecording(recordings', id).status = 200
                     /\ GetRecording(recordings', id).recording.id = id
                     /\ GetRecording(recordings', id).recording.roomId = r
                     /\ IF lastOp'.op = "stop-recording"
                        THEN GetRecording(recordings', id).recording.snapshots = log
                        ELSE WithLeftEvents(log,
                                            GetRecording(recordings', id).recording.snapshots,
                                            r, rooms[r].participants)

\* C21: the recordingId returned by start-recording is the id under which,
\* after stop-recording or empty-room teardown, get-recording returns a
\* Recording whose events are exactly the events appended between that start
\* and that stop, in the order appended
C21_RecordingIdNamesEvents ==
    [][StartAnswersId /\ LogStoredUnderId]_vars

\* a stop request has just stored a recording of its room that holds an event
\* appended after the start
C21_Witness ==
    /\ lastOp.op = "stop-recording"
    /\ lastOp.room \in DOMAIN rooms
    /\ ~rooms[lastOp.room].isRecording
    /\ \E id \in DOMAIN recordings :
           /\ GetRecording(recordings, id).recording.roomId = lastOp.room
           /\ Len(GetRecording(recordings, id).recording.snapshots) >= 2
           /\ GetRecording(recordings, id).recording.snapshots[1].type = "recording-started"
           /\ GetRecording(recordings, id).recording.snapshots[2].type # "recording-started"

----------------------------------------------------------------------------
(* C22: decoding rejects corrupt events. *)

\* the type byte of the buffer is no index into the event-type enumeration
BadTypeIndex(buffer) == buffer[17] >= Len(EventType)

\* the payload length of the buffer exceeds the bytes that follow it
BadPayloadLength(buffer) ==
    Uint32Value(SubSeq(buffer, FixedSize - 3, FixedSize)) > Len(buffer) - FixedSize

\* C22 (as claimed): fromBinary on a buffer whose eventTypeIndex byte is not a
\* valid index into the event-type enumeration, or whose payloadLength exceeds
\* the bytes remaining in the buffer, fails with an error and returns no event
C22_CorruptRejected ==
    (codec.status = "received" /\ Len(codec.buffer) >= FixedSize
        /\ (BadTypeIndex(codec.buffer) \/ BadPayloadLength(codec.buffer))) =>
        /\ codec.error # "none"
        /\ codec.decoded = NoSnapshot

\* the part of C22 about the payload length alone
PayloadLengthRejected ==
    (codec.status = "received" /\ Len(codec.buffer) >= FixedSize
        /\ BadPayloadLength(codec.buffer)) =>
        /\ codec.error = "RangeError"
        /\ codec.decoded = NoSnapshot

----------------------------------------------------------------------------
(* C23: over-long user ids. *)

\* toBinary of an event whose userId exceeds 36 UTF-8 bytes throws and returns
\* no buffer
OverlongRejected ==
    (codec.status = "encoded" /\ Len(TextEncode(codec.snapshot.userId)) > UserIdWidth) =>
        /\ codec.error # "none"
        /\ codec.buffer = <<>>

\* a buffer toBinary returned decodes to the userId of the encoded event
UserIdKept ==
    (codec.status = "decoded" /\ codec.error = "none") =>
        codec.decoded.userId = codec.snapshot.userId

\* C23 (as claimed): encoding an event whose userId exceeds 36 UTF-8 bytes is
\* rejected with an error; toBinary never returns a buffer that decodes to an
\* event with a different userId
C23_UserIdNotCorrupted == OverlongRejected /\ UserIdKept

----------------------------------------------------------------------------
(* C24: loading validation. *)

\* the recording has events and the first one is a state-snapshot
AnchoredRecording(recording) ==
    /\ Len(recording.snapshots) > 0
    /\ recording.snapshots[1].type = "state-snapshot"

\* the loader just constructed on an anchored recording is stopped at
\* cursorIndex 0 and holds the state of the first snapshot
LoadedFromAnchor ==
    (ReplayLoaded /\ lastOp = ROp("load", 0) /\ AnchoredRecording(replay.recording)) =>
        /\ replay.error = "none"
        /\ ~replay.isPlaying
        /\ CursorIndex(replay) = 0
        /\ ToJSON(replay.yDoc) = replay.recording.snapshots[1].payload.state

\* C24 (as claimed): constructing the replay engine on a recording whose first
\* event is not a state-snapshot (or that has no events) fails with an
\* InvalidRecording error; on a valid recording it starts stopped (not playing)
\* with cursorIndex 0 and the reconstructed state equal to the first snapshot
C24_LoadValidation ==
    /\ (ReplayLoaded /\ lastOp = ROp("load", 0) /\ ~AnchoredRecording(replay.recording))
           => replay.error = "InvalidRecording"
    /\ LoadedFromAnchor

----------------------------------------------------------------------------
(* C25: playback completes. *)

\* what applying the events i+1..j of the loader emits: the event of the type,
\* for the types that have one, then 'snapshot'
RECURSIVE AppliedEmits(_, _, _)
AppliedEmits(snapshots, i, j) ==
    IF i >= j THEN <<>>
    ELSE (IF snapshots[i + 1].type \in
                {"cursor-update", "selection-update", "crdt-update", "participant-joined",
                 "participant-left", "chat-message", "camera-update", "annotation-added"}
          THEN <<snapshots[i + 1].type, "snapshot">> ELSE <<"snapshot">>)
         \o AppliedEmits(snapshots, i + 1, j)

Count(s, x) == Cardinality({i \in 1..Len(s) : s[i] = x})

\* the step runs the playback loop of a playing loader: an animation frame, or
\* play() on a loader that was not playing
PlaybackRuns ==
    /\ ReplayLoaded
    /\ \/ lastOp' = ROp("frame", 0) /\ replay.isPlaying
       \/ lastOp' = ROp("play", 0) /\ ~replay.isPlaying

\* a run of the playback loop applies the next events in array order, each
\* once; when it has applied the last one the loader is stopped at index 0 and
\* 'complete' is emitted once, and not before
PlaybackInOrder ==
    PlaybackRuns =>
        LET n == Len(replay.snapshots)
            to == IF replay'.isPlaying THEN replay'.currentIndex ELSE n
            applied == AppliedEmits(replay.snapshots, replay.currentIndex, to)
        IN  /\ replay'.error = "none"
            /\ replay.currentIndex <= to
            /\ IsPrefix(applied, replay'.emitted)
            /\ Count(replay'.emitted, "snapshot") = to - replay.currentIndex
            /\ Count(replay'.emitted, "complete") = (IF replay'.isPlaying THEN 0 ELSE 1)
            /\ ~replay'.isPlaying => replay'.currentIndex = 0 /\ replay'.startTime = NullTime
            /\ replay'.isPlaying =>
                   /\ replay'.frames > 0
                   /\ ~DLeq(DInt(replay'.snapshots[to + 1].relativeTime),
                            GetCurrentTime(replay', now'))

\* the clock of the model has reached its bound before the next event is due
ClockSpent ==
    /\ now = MaxReplayTime
    /\ replay.isPlaying
    /\ replay.currentIndex < Len(replay.snapshots)
    /\ ~DLeq(DInt(replay.snapshots[replay.currentIndex + 1].relativeTime),
             GetCurrentTime(replay, now))

----------------------------------------------------------------------------
(* C26: pause freezes the virtual clock. *)

\* the step is a call of the named method of the loader
ReplayCalls(name) == ReplayLoaded /\ lastOp'.op = name

\* the speed multiplier lies in [0.1, 10.0]
SpeedInRange(speed) == DLeq(Tenths(1), speed) /\ DLeq(speed, DInt(10))

\* C26 (as claimed): for every speed multiplier (a number), getCurrentTime()
\* immediately after pause() equals the virtual time immediately before it,
\* stays constant while paused, and a following play() resumes from that same
\* virtual time (a play() during which the clock does not advance)
C26_PauseFreezesClock ==
    [][/\ (ReplayCalls("pause") /\ replay.isPlaying
             /\ SpeedInRange(replay.playbackSpeed)) =>
              GetCurrentTime(replay', now') = GetCurrentTime(replay, now)
       /\ (ReplayLoaded /\ ~replay.isPlaying /\ lastOp'.op \in {"tick", "frame", "pause"}) =>
              GetCurrentTime(replay', now') = GetCurrentTime(replay, now)
       /\ (ReplayCalls("play") /\ ~replay.isPlaying /\ replay'.isPlaying /\ now' = now
             /\ SpeedInRange(replay.playbackSpeed)) =>
              GetCurrentTime(replay', now') = GetCurrentTime(replay, now)]_vars

----------------------------------------------------------------------------
(* C27: stop resets the replay. *)

\* the loader is stopped: not playing, at index 0, virtual time 0
Stopped ==
    ~replay.isPlaying /\ replay.currentIndex = 0 /\ GetCurrentTime(replay, now) = DInt(0)

\* stop() leaves the loader stopped, whatever the state it was called in
StopRewinds == (ReplayLoaded /\ lastOp.op = "stop") => Stopped

\* C27 (as claimed): after stop(), from any state, the engine is not playing,
\* cursorIndex is 0, virtual time is 0, and the reconstructed state equals the
\* one held right after load, with no participants, cursors or selections left
\* over from events applied before the stop
C27_StopResets ==
    (ReplayLoaded /\ lastOp.op = "stop") =>
        /\ Stopped
        /\ View(replay) = View(NewLoader(replay.recording))

----------------------------------------------------------------------------
(* C28: the playback speed is clamped. *)

\* min(10.0, max(0.1, m))
Clamped(m) ==
    IF DLeq(m, Tenths(1)) THEN Tenths(1) ELSE IF DLeq(DInt(10), m) THEN DInt(10) ELSE m

\* C28: after setPlaybackSpeed(m) the playback speed equals
\* min(10.0, max(0.1, m)) for every m, and in every reachable state the speed
\* multiplier lies in [0.1, 10.0]
C28_SpeedClamped ==
    /\ [][ReplayCalls("setPlaybackSpeed") =>
              replay'.playbackSpeed = Clamped(lastOp'.msg.arg)]_vars
    /\ [](ReplayLoaded => SpeedInRange(replay.playbackSpeed))

\* what setPlaybackSpeed does keep: called with a number it leaves the clamped
\* number, which lies in [0.1, 10.0]; the speed is outside the range only
\* when it is NaN, and from a call with NaN on
NumbersAreClamped ==
    /\ [][(ReplayCalls("setPlaybackSpeed") /\ ~IsNaN(lastOp'.msg.arg)) =>
              /\ replay'.playbackSpeed = Clamped(lastOp'.msg.arg)
              /\ SpeedInRange(replay'.playbackSpeed)]_vars
    /\ [][(ReplayLoaded /\ ReplayLoaded' /\ SpeedInRange(replay.playbackSpeed)
             /\ ~SpeedInRange(replay'.playbackSpeed)) =>
              /\ lastOp'.op = "setPlaybackSpeed" /\ IsNaN(lastOp'.msg.arg)
              /\ IsNaN(replay'.playbackSpeed)]_vars

\* with the speed NaN a playing loader has no current time: the playback loop
\* applies no event and asks for another frame
NaNSpeedStalls ==
    [][(ReplayCalls("frame") /\ replay.isPlaying /\ IsNaN(replay.playbackSpeed)) =>
          /\ replay'.currentIndex = replay.currentIndex
          /\ (replay.currentIndex < Len(replay.snapshots) =>
                  replay'.isPlaying /\ replay'.frames = replay.frames)]_vars

----------------------------------------------------------------------------
(* C29: a speed change preserves the elapsed virtual time. *)

\* a speed change on a paused or stopped loader leaves the virtual time alone
SpeedChangePausedKeepsTime ==
    [][(ReplayCalls("setPlaybackSpeed") /\ ~replay.isPlaying) =>
           GetCurrentTime(replay', now') = GetCurrentTime(replay, now)]_vars

\* C29 (as claimed): for every old and new speed (numbers), whether playing or
\* paused, the virtual time reported, and used to select events, immediately
\* after setPlaybackSpeed equals the virtual time immediately before it (for
\* the calls during which the clock does not advance)
C29_SpeedChangeKeepsTime ==
    [][(ReplayCalls("setPlaybackSpeed") /\ now' = now
          /\ SpeedInRange(replay.playbackSpeed) /\ ~IsNaN(lastOp'.msg.arg)) =>
           GetCurrentTime(replay', now') = GetCurrentTime(replay, now)]_vars

----------------------------------------------------------------------------
(* C30: seek sets the point playback resumes from. *)

\* seek(t) on a loader that is not playing leaves the virtual time at t
SeekPausedSetsTime ==
    [][(ReplayCalls("seek") /\ ~replay.isPlaying /\ replay'.error = "none") =>
           GetCurrentTime(replay', now') = DInt(lastOp'.msg.arg)]_vars

\* C30 (as claimed): for every speed multiplier (a number), after seek(t),
\* issued while paused, stopped or playing, a play() resumes with virtual time
\* equal to t: the play() that follows a seek, and the one seek itself makes
\* when the loader was playing, leave the virtual time at t unless the replay
\* completes (for the calls during which the clock does not advance)
C30_SeekSetsResumePoint ==
    [][/\ (ReplayCalls("play") /\ lastOp.op = "seek" /\ replay.error = "none"
             /\ "complete" \notin ToSet(replay.emitted)
             /\ SpeedInRange(replay.playbackSpeed) /\ now' = now
             /\ ~replay.isPlaying /\ replay'.error = "none" /\ replay'.isPlaying) =>
              GetCurrentTime(replay', now') = DInt(lastOp.msg.arg)
       /\ (ReplayCalls("seek") /\ replay'.error = "none" /\ replay'.isPlaying
             /\ SpeedInRange(replay.playbackSpeed) /\ now' = now) =>
              GetCurrentTime(replay', now') = DInt(lastOp'.msg.arg)]_vars

----------------------------------------------------------------------------
(* C31: the order of the event log. *)

\* while the recording of a room goes on, a step leaves the events already in
\* the log where they are and puts the events it records after them
LogAppendOnly ==
    \A r \in DOMAIN rooms \cap DOMAIN rooms' :
        (rooms[r].isRecording /\ rooms'[r].recordingId = rooms[r].recordingId) =>
            IsPrefix(rooms[r].recordingSnapshots, rooms'[r].recordingSnapshots)

\* along a log relativeTime is non-negative and non-decreasing, and the
\* events are in the order of the clock readings of their operations
TimesOrdered(log) ==
    \A i \in 1..Len(log) :
        /\ log[i].relativeTime >= 0
        /\ i > 1 => /\ log[i - 1].relativeTime <= log[i].relativeTime
                    /\ log[i - 1].timestamp <= log[i].timestamp

\* C31: while a room is recording the event log is append-only, its events
\* appear in the order in which the room processed their operations, and
\* relativeTime is non-negative and non-decreasing along the log, given the
\* non-decreasing clock
C31_EventLogOrder ==
    /\ [][LogAppendOnly]_vars
    /\ [](/\ \A r \in DOMAIN rooms : TimesOrdered(rooms[r].recordingSnapshots)
          /\ \A id \in DOMAIN recordings : TimesOrdered(recordings[id].snapshots))

\* a recording room whose log holds an event recorded after the clock moved
C31_Witness ==
    \E r \in DOMAIN rooms :
        /\ rooms[r].isRecording
        /\ Len(rooms[r].recordingSnapshots) = 2
        /\ rooms[r].recordingSnapshots[2].relativeTime > 0

----------------------------------------------------------------------------
(* C32: the vocabulary of the recorded events. *)

\* the event types named by the claim
RecordedTypes == ToSet(EventType) \ {"playback-control"}

\* an event of the shared vocabulary, with the data of its type in the payload
\* field the replay loader reads
InVocabulary(e) ==
    /\ e.type \in RecordedTypes
    /\ e.type \in {"state-snapshot", "crdt-update", "cursor-update", "selection-update"} =>
           e.payload.defined

\* C32 (as claimed): every event a room appends to its event log has a type
\* drawn from the event type enumeration shared with the codec and the replay
\* loader, with its type-specific data carried in the payload field
C32_RecordedVocabulary ==
    \A r \in DOMAIN rooms :
        \A i \in 1..Len(rooms[r].recordingSnapshots) :
            InVocabulary(rooms[r].recordingSnapshots[i])

\* the participant events are the recorded events that are in the vocabulary
ParticipantEventsInVocabulary ==
    \A r \in DOMAIN rooms :
        \A i \in 1..Len(rooms[r].recordingSnapshots) :
            LET e == rooms[r].recordingSnapshots[i]
            IN  InVocabulary(e) <=> e.type \in {"participant-joined", "participant-left"}

----------------------------------------------------------------------------
(* C33: the join response carries the session identity. *)

\* the room-joined messages the step wrote to the socket of its operation, as
\* positions in the order written
RoomJoinedTo == {i \in 1..Len(sent') : sent'[i].ws = lastOp'.ws
                                        /\ sent'[i].msg.type = "room-joined"}

\* the step is a join-room handshake on a room of the registry
JoinsExistingRoom == IsHandshakeStep("join-room") /\ lastOp'.msg.roomId \in DOMAIN rooms

\* the room-joined message written by handleJoinRoom itself, to a socket that
\* is OPEN, names the room and the new session, which is in the roster of that
\* room
JoinAnswerNamesSession ==
    [][(JoinsExistingRoom /\ readyState[lastOp'.ws] = OPEN) =>
          \E i \in RoomJoinedTo :
              /\ sent'[i].session = Null
              /\ sent'[i].msg.roomId = lastOp'.msg.roomId
              /\ sent'[i].msg.sessionId \in DOMAIN sessions' \ DOMAIN sessions
              /\ sent'[i].msg.sessionId \in ToSet(rooms'[lastOp'.msg.roomId].participants)]_vars

\* C33 (as claimed): for every join-room handshake on an existing room, the
\* joining connection receives a room-joined message carrying roomId, the
\* server-assigned sessionId, role, state and participants, and it is the
\* first room-joined message it receives, so that MCPClient.joinRoom resolves
\* with a sessionId equal to the key of that session in the room's roster
C33_JoinResponseIdentity ==
    [][JoinsExistingRoom =>
          /\ RoomJoinedTo # {}
          /\ LET first == CHOOSE i \in RoomJoinedTo : \A j \in RoomJoinedTo : i <= j
                 msg == sent'[first].msg
             IN  /\ {"roomId", "sessionId", "role", "state", "participants"} \subseteq DOMAIN msg
                 /\ msg.sessionId \in ToSet(rooms'[lastOp'.msg.roomId].participants)]_vars

----------------------------------------------------------------------------
(* C34: rooms are isolated from each other. *)

\* the rooms a step operates on: the room of a recording request, and for a
\* message or a close on a socket the rooms of the sessions bound to that
\* socket before or after the step (a handshake binds a new one)
RoomsOperatedOn ==
    IF lastOp'.op \in {"start-recording", "stop-recording"} THEN {lastOp'.room}
    ELSE {sessions[sid].roomId : sid \in {x \in DOMAIN sessions : sessions[x].ws = lastOp'.ws}}
         \cup {sessions'[sid].roomId :
                   sid \in {x \in DOMAIN sessions' : sessions'[x].ws = lastOp'.ws}}

\* the room of the session a message of the step was delivered to
RoomOfReceiver(sid) ==
    IF sid \in DOMAIN sessions' THEN sessions'[sid].roomId ELSE sessions[sid].roomId

----------------------------------------------------------------------------
(* C35: the header of a serialised replay. *)

\* the bytes of the payload of a snapshot
PayloadLength(snapshot) ==
    IF snapshot.payload.defined THEN Len(TextEncode(JsonStringify(snapshot.payload.value)))
    ELSE 0

\* the sum over the events of (57 + payloadLength)
RECURSIVE EventBytes(_)
EventBytes(snapshots) ==
    IF snapshots = <<>> THEN 0
    ELSE FixedSize + PayloadLength(Head(snapshots)) + EventBytes(Tail(snapshots))

\* a replay was serialised
Exported == codec.status = "exported" /\ codec.error = "none"

\* the first 4 bytes hold the number of events, the next 8 the duration, and
\* the fixed-layout bytes of the first event begin after header bytes; the
\* total length is header plus the sum over the events of (57 + payloadLength)
HeaderLayout(header) ==
    /\ SubSeq(codec.buffer, 1, 4) = Uint32Bytes(Len(codec.snapshots))
    /\ Float64Value(SubSeq(codec.buffer, 5, 12)) = [modelled |-> TRUE, value |-> codec.duration]
    /\ Len(codec.snapshots) > 0 =>
           SubSeq(codec.buffer, header + 1, header + FixedSize)
               = SubSeq(ToBinary(codec.snapshots[1]).buffer, 1, FixedSize)
    /\ Len(codec.buffer) = header + EventBytes(codec.snapshots)

\* the layout the code writes: the events begin after 32 bytes
HeaderOf32 == Exported => HeaderLayout(HeaderSize)

\* C35 (as claimed): serialising a replay with n events yields a buffer whose
\* first 4 bytes hold n, whose next 8 bytes hold the duration, and in which
\* the first event's fixed-layout bytes begin immediately after that 12-byte
\* header; total length is 12 plus the sum over events of (57 + payloadLength)
C35_RecordingHeader == Exported => HeaderLayout(12)

----------------------------------------------------------------------------
(* C36: the recording fields of a room agree. *)

\* C36: in every reachable state of every room, isRecording is true if and
\* only if recordingId is non-null; when the room is not recording its event
\* log is empty; and the id of an in-flight recording is never a key of the
\* recordings store
C36_RecordingState ==
    \A r \in DOMAIN rooms :
        /\ rooms[r].isRecording <=> rooms[r].recordingId # Null
        /\ ~rooms[r].isRecording => rooms[r].recordingSnapshots = <<>>
        /\ rooms[r].isRecording => rooms[r].recordingId \notin DOMAIN recordings

\* a room records again, with an event after the start, while an earlier
\* recording of the same room is in the store
C36_Witness ==
    \E r \in DOMAIN rooms :
        /\ rooms[r].isRecording
        /\ Len(rooms[r].recordingSnapshots) = 2
        /\ \E id \in DOMAIN recordings : recordings[id].roomId = r

----------------------------------------------------------------------------
(* C37: one session per connection. *)

\* the sessions bound to a connection
SessionsOf(c) == {sid \in DOMAIN sessions : sessions[sid].ws = c}

\* C37 (as claimed): a connection that has completed a create-room or
\* join-room handshake is bound to exactly one session; a further handshake
\* message sent on that same connection creates no additional room or session
\* and does not change any roster
C37_OneSessionPerConnection ==
    /\ [](\A c \in Conns : Cardinality(SessionsOf(c)) <= 1)
    /\ [][(lastOp'.op = "message" /\ lastOp'.msg.type = "handshake"
             /\ SessionsOf(lastOp'.ws) # {}) =>
              /\ DOMAIN sessions' = DOMAIN sessions
              /\ DOMAIN rooms' = DOMAIN rooms
              /\ \A r \in DOMAIN rooms : rooms'[r].participants = rooms[r].participants]_vars

\* a handshake binds one new session to the connection it arrived on, whether
\* or not the connection already has one
HandshakeBindsNewSession ==
    [][(IsHandshakeStep("create-room") \/ JoinsExistingRoom) =>
          \E sid \in DOMAIN sessions' \ DOMAIN sessions :
              /\ DOMAIN sessions' = DOMAIN sessions \cup {sid}
              /\ sessions'[sid].ws = lastOp'.ws]_vars

----------------------------------------------------------------------------
(* C38: the bounds of the replay cursor. *)

\* the cursor stays within the events of the recording
CursorInBounds ==
    ReplayLoaded => replay.currentIndex \in 0..Len(replay.snapshots)

\* C38 (as claimed): after any sequence of load, play, polling tick, pause,
\* stop, seek(t) and setPlaybackSpeed, on any recording including one with
\* zero events, 0 <= cursorIndex <= number of events holds and no operation
\* raises an error
C38_CursorBounds ==
    ReplayLoaded => /\ replay.currentIndex \in 0..Len(replay.snapshots)
                    /\ replay.error = "none"

----------------------------------------------------------------------------
(* C39: play and seek agree. *)

\* the polling ticks of a playing loader at the milliseconds from..to
RECURSIVE PollFrom(_, _, _)
PollFrom(rp, from, to) ==
    IF from > to \/ rp.error # "none" THEN rp
    ELSE PollFrom(PlaybackLoop([rp EXCEPT !.frames = @ - 1], from), from + 1, to)

\* a fresh loader played from wall-clock time 0 at speed 1.0, polled every
\* millisecond until the virtual time reaches t milliseconds, then paused
PlayedUntil(recording, t) ==
    Pause(PollFrom(Play(Call(NewLoader(recording)), <<0, 0>>), 1, t), t)

\* what play and seek are compared on
Reconstructed(rp) == [view |-> View(rp), currentIndex |-> rp.currentIndex]

\* the step is seek(t) on a fresh load, and neither it nor playing until t
\* throws or reaches the end of the recording
SeeksFresh ==
    /\ ReplayCalls("seek") /\ replay'.pristine /\ replay'.error = "none"
    /\ LET played == PlayedUntil(replay.recording, lastOp'.msg.arg)
       IN  played.error = "none" /\ "pause" \in ToSet(played.emitted)

\* C39 (as claimed): playing from a fresh load with polling ticks until the
\* virtual time reaches t and then pausing leaves the same reconstructed
\* shared state, presence views and cursorIndex as seek(t) on a fresh load
C39_PlayAndSeekAgree ==
    [][SeeksFresh =>
          Reconstructed(replay') = Reconstructed(PlayedUntil(replay.recording, lastOp'.msg.arg))]_vars

\* play and seek agree on a recording that starts with a state snapshot at
\* relativeTime 0 and has no later state snapshot
AgreeWhenAnchoredAtZero ==
    [][(SeeksFresh /\ AnchoredRecording(replay.recording)
          /\ replay.snapshots[1].relativeTime = 0
          /\ \A i \in 2..Len(replay.snapshots) : replay.snapshots[i].type # "state-snapshot") =>
          Reconstructed(replay') = Reconstructed(PlayedUntil(replay.recording, lastOp'.msg.arg))]_vars

----------------------------------------------------------------------------
(* C40: the shared selection and the local view. *)

\* the local view and the shared array are in step
InStep ==
    /\ hook.localSelection = ToSet(ToArray(hook.items))
    /\ Cardinality(ToSet(ToArray(hook.items))) = ArrayLength(hook.items)

\* a step from a state in step ends in step, unless it removes a batch of
\* several indices or renders the hook with another room, user or server
SingleRemovalsInStep ==
    [][(/\ InStep
        /\ ~(lastOp'.op = "removeFromSelection" /\ Len(lastOp'.msg.arg) > 1)
        /\ lastOp'.op # "render-other-room")
           => InStep']_vars

\* C40: after any sequence of addToSelection, removeFromSelection (single
\* index or a batch of several indices), toggleSelection and clearSelection
\* by the local user, localSelection equals the set of elements of that
\* user's shared selection array, and the array contains no index twice
C40_SelectionInStep ==
    OnlySelectionOperations =>
        /\ hook.localSelection = ToSet(ToArray(hook.items))
        /\ Cardinality(ToSet(ToArray(hook.items))) = ArrayLength(hook.items)

====
